---- MODULE Spec2Model ----
(***************************************************************************)
(* A model of the intersection bookkeeping and shading engine of the       *)
(* ray_tracer package: the Intersections container and its hit rule, the   *)
(* Cylinder's local intersection, the CSG intersection filter and its      *)
(* membership test, the refractive-index container walk, and the           *)
(* recursive World.color_at / reflected_color / refracted_color.           *)
(*                                                                         *)
(* Numbers are integers.  Rays and cylinders are drawn from integer        *)
(* families on which every square root and division of the source is       *)
(* exact, so the integer arithmetic below is the source's arithmetic.      *)
(* Refractive indices are carried in tenths (15 is 1.5).                   *)
(***************************************************************************)
EXTENDS Integers, Sequences, FiniteSets, TLC

VARIABLES
    data,       \* Intersections.data: the list of Intersection records
    hitCached,  \* whether the cached_property `hit` is stored on the instance
    hitValue,   \* the stored value of `hit`: <<>> is None, <<i>> is i
    ret,        \* what the last `hit` read returned: <<>> is None, <<i>> is i
    lastOp,     \* the last operation applied to the Intersections
    scene,      \* the shape tree of a CSG: children sets and their iteration order
    operation,  \* CSG.operation
    inters,     \* the Intersections passed to CSG._filter_intersections
    pos,        \* the position of the filter's loop in inters
    in_left,    \* _filter_intersections: in_left
    in_right,   \* _filter_intersections: in_right
    filtered,   \* _filter_intersections: filtered_inters
    step,       \* the arguments and result of the last _is_inter_allowed call
    fpc,        \* where _filter_intersections is: "idle", "loop" or "done"
    ciA,        \* check_includes: a
    ciB,        \* check_includes: b
    ciRet,      \* check_includes: <<>> before a call, then <<its result>>
    all_inters, \* _calc_refractive_indices: all_inters
    target,     \* _calc_refractive_indices: inter
    n1n2,       \* _calc_refractive_indices: the call's outcome
    world,      \* World.objects' materials: reflective and transparency by shape
    stack,      \* the call stack of color_at: one frame per call in progress
    result,     \* <<>> while the outermost color_at runs, then <<its color>>
    children,   \* Group.children of every Group and CSG: a set of shapes
    parent,     \* Shape.parent of every shape: a Group or CSG, 0 for None
    built,      \* the CSG instances constructed so far
    left_shape, \* CSG.left_shape of every CSG constructed, 0 before
    right_shape, \* CSG.right_shape of every CSG constructed, 0 before
    calls,      \* how many constructions and add_child calls were made
    gop,        \* the last operation on the scene graph
    gret,       \* <<>> before a Group.intersect call, then <<what it returned>>
    call,       \* a call of a function of rayple.py, lights.py or shapes.py
    outcome,    \* <<>> before that call is made, then <<what it returned or raised>>
    parser,     \* parse_obj_src: its argument, its position in it and its locals
    canvas,     \* a Canvas: width, height, _pixels, and the write_pixel calls it served
    cam,        \* a Camera and where its render is: h_size, v_size, the pixels to come
    ppm         \* <<>> before _pixels_to_ppm is called, then <<the values it wrote>>

interVars == <<data, hitCached, hitValue, ret, lastOp>>
filterVars == <<operation, inters, pos, in_left, in_right, filtered, step, fpc>>
ciVars == <<ciA, ciB, ciRet>>

refrVars == <<all_inters, target, n1n2>>

worldVars == <<world, stack, result>>

graphVars == <<children, parent, built, left_shape, right_shape, calls, gop, gret>>

callVars == <<call, outcome>>

canvasVars == <<canvas, cam, ppm>>

vars == <<interVars, scene, filterVars, ciVars, refrVars, worldVars, graphVars, callVars, parser, canvasVars>>

notInter == <<scene, filterVars, ciVars, refrVars, worldVars, graphVars, callVars, parser, canvasVars>>
notFilter == <<interVars, ciVars, refrVars, worldVars, graphVars, callVars, parser, canvasVars>>
notIncludes == <<interVars, filterVars, refrVars, worldVars, graphVars, callVars, parser, canvasVars>>
notRefr == <<interVars, scene, filterVars, ciVars, worldVars, graphVars, callVars, parser, canvasVars>>
notWorld == <<interVars, scene, filterVars, ciVars, refrVars, graphVars, callVars, parser, canvasVars>>
notGraph == <<interVars, scene, filterVars, ciVars, refrVars, worldVars, callVars, parser, canvasVars>>
notCalls == <<interVars, scene, filterVars, ciVars, refrVars, worldVars, graphVars, parser, canvasVars>>
notParser == <<interVars, scene, filterVars, ciVars, refrVars, worldVars, graphVars, callVars, canvasVars>>
notCanvas == <<interVars, scene, filterVars, ciVars, refrVars, worldVars, graphVars, callVars, parser>>

(***************************************************************************)
(* Bounds of the model.                                                    *)
(***************************************************************************)
MaxData == 3    \* longest Intersections a caller builds by hand
MaxT == 2       \* hand-built t values range over -MaxT..MaxT
MaxCoord == 3   \* ray origins have coordinates in -MaxCoord..MaxCoord
MaxInters == 4  \* longest sequence handed to CSG._filter_intersections
MaxRefr == 4    \* longest hand-built sequence handed to _calc_refractive_indices
MaxRemaining == 3   \* a caller's bounce budget ranges over -1..MaxRemaining, and REF_LIMIT
MaxCalls == 3   \* most constructions and add_child calls made on a scene graph
MaxComp == 1    \* a Rayple's components range over -MaxComp..MaxComp
MaxNesting == 2 \* a shape is nested in at most MaxNesting groups
MaxLines == 4   \* an OBJ source has at most MaxLines lines
MaxPops == 8    \* iterations of the check_includes loop that are followed
MaxSide == 3    \* a Canvas and a Camera are at most MaxSide pixels wide and high

TVals == (0 - MaxT)..MaxT

(***************************************************************************)
(* Intersection and Intersections (intersections.py)                       *)
(***************************************************************************)
\* Intersection(t, obj): a frozen dataclass compared by value; u and v keep
\* their default 0 for every shape modelled here.
Intersection(t, obj) == [t |-> t, obj |-> obj]

\* list.sort(key=lambda x: x.t): a stable sort, as an insertion sort that puts
\* x after every element whose key is <= its own.
RECURSIVE InsertByT(_, _)
InsertByT(s, x) ==
    IF s = <<>> THEN <<x>>
    ELSE IF s[Len(s)].t <= x.t THEN Append(s, x)
    ELSE Append(InsertByT(SubSeq(s, 1, Len(s) - 1), x), s[Len(s)])

RECURSIVE SortByT(_)
SortByT(s) ==
    IF s = <<>> THEN <<>>
    ELSE InsertByT(SortByT(SubSeq(s, 1, Len(s) - 1)), s[Len(s)])

\* list.sort(key=lambda x: x.t, reverse=True): descending by t, and stable
\* too: x goes after every element whose key is >= its own.
RECURSIVE InsertByTReverse(_, _)
InsertByTReverse(s, x) ==
    IF s = <<>> THEN <<x>>
    ELSE IF s[Len(s)].t >= x.t THEN Append(s, x)
    ELSE Append(InsertByTReverse(SubSeq(s, 1, Len(s) - 1), x), s[Len(s)])

RECURSIVE SortByTReverse(_)
SortByTReverse(s) ==
    IF s = <<>> THEN <<>>
    ELSE InsertByTReverse(SortByTReverse(SubSeq(s, 1, Len(s) - 1)), s[Len(s)])

\* Intersections.__init__: list(in_data), then self.sort()
NewIntersections(in_data) == SortByT(in_data)

\* Intersections.hit, the body of the property: the first entry of the list,
\* in the list's order, whose t is > 0; None (<<>>) when there is none.
RECURSIVE ComputeHit(_)
ComputeHit(s) ==
    IF s = <<>> THEN <<>>
    ELSE IF s[1].t > 0 THEN <<s[1]>>
    ELSE ComputeHit(Tail(s))

(***************************************************************************)
(* Rays and the Cylinder (rays.py, shapes.py)                              *)
(***************************************************************************)
Ray(ox, oy, oz, dx, dy, dz) ==
    [ox |-> ox, oy |-> oy, oz |-> oz, dx |-> dx, dy |-> dy, dz |-> dz]

\* Ray.transform: the origin and the direction come back from Matrix.__mul__
\* and Rayple.from_np as numpy floats, whatever numbers the ray was built of.
\* The ray keeps its values (the shapes of the model have the identity or a
\* transform applied by their own operator) and is marked as numpy's.
RayTransform(r) ==
    [ox |-> r.ox, oy |-> r.oy, oz |-> r.oz, dx |-> r.dx, dy |-> r.dy, dz |-> r.dz,
     np |-> TRUE]

\* Whether the ray's components are numpy floats, on which a division by
\* zero gives inf or nan (and a RuntimeWarning), or Python numbers, on which
\* it raises ZeroDivisionError.
IsNumpy(r) == "np" \in DOMAIN r

Cylinder(id, minimum, maximum, closed) ==
    [kind |-> "Cylinder", id |-> id, minimum |-> minimum, maximum |-> maximum,
     closed |-> closed]

\* 2 to the power k, for a natural k
RECURSIVE Pow2(_)
Pow2(k) == IF k = 0 THEN 1 ELSE 2 * Pow2(k - 1)

\* A Sphere whose transform is scaling(s, s, s) with s = 2^doublings, a
\* natural power of two: the inverse of the transform and every product and
\* sum of _local_intersect are then exact in binary floating point on the
\* integer rays of the model, and the sign of the float discriminant is
\* that of the integer one.  (With another factor, scaling(10, 10, 10) say,
\* the float discriminant of a tangent ray can round below 0.)
Sphere(id, doublings) == [kind |-> "Sphere", id |-> id, doublings |-> doublings]

\* A Plane whose transform turns it to face the z axis and moves it to z = at:
\* translation(0, 0, at) * rotation_x(pi / 2).
Plane(id, at) == [kind |-> "Plane", id |-> id, at |-> at]

IsSquare(n) == n >= 0 /\ \E r \in 0..n : r * r = n
ISqrt(n) == CHOOSE r \in 0..n : r * r = n

\* The result of a call that may raise: raised, or the value it returns.
Raised == [raised |-> TRUE, value |-> <<>>]
Returned(v) == [raised |-> FALSE, value |-> v]

\* Cylinder._check_cap
CylCheckCap(r, t) ==
    LET x == r.ox + t * r.dx
        z == r.oz + t * r.dz
    IN  x * x + z * z <= 1

\* Cylinder._intersect_caps: appends the cap hits to its inters, lower cap first.
\* When direction.y is 0 the division raises ZeroDivisionError on Python
\* numbers; on numpy floats t is inf or nan, _check_cap compares inf or nan
\* with 1, which is False, and no cap hit is added.
CylIntersectCaps(cyl, r, cap_inters) ==
    IF ~cyl.closed THEN Returned(cap_inters)
    ELSE IF r.dy = 0 THEN (IF IsNumpy(r) THEN Returned(cap_inters) ELSE Raised)
    ELSE LET tlo == (cyl.minimum - r.oy) \div r.dy
             thi == (cyl.maximum - r.oy) \div r.dy
             s1 == IF CylCheckCap(r, tlo)
                   THEN Append(cap_inters, Intersection(tlo, cyl.id)) ELSE cap_inters
             s2 == IF CylCheckCap(r, thi)
                   THEN Append(s1, Intersection(thi, cyl.id)) ELSE s1
         IN  Returned(s2)

\* Cylinder._local_intersect
CylLocalIntersect(cyl, r) ==
    LET a == r.dx * r.dx + r.dz * r.dz
        b == 2 * r.ox * r.dx + 2 * r.oz * r.dz
        c == r.ox * r.ox + r.oz * r.oz - 1
        disc == b * b - 4 * a * c
    IN  IF a = 0 THEN CylIntersectCaps(cyl, r, <<>>)
        ELSE IF disc < 0 THEN Returned(<<>>)
        ELSE LET ta == ((0 - b) - ISqrt(disc)) \div (2 * a)
                 tb == ((0 - b) + ISqrt(disc)) \div (2 * a)
                 t0 == IF ta > tb THEN tb ELSE ta
                 t1 == IF ta > tb THEN ta ELSE tb
                 y0 == r.oy + t0 * r.dy
                 y1 == r.oy + t1 * r.dy
                 s1 == IF cyl.minimum < y0 /\ y0 < cyl.maximum
                       THEN <<Intersection(t0, cyl.id)>> ELSE <<>>
                 s2 == IF cyl.minimum < y1 /\ y1 < cyl.maximum
                       THEN Append(s1, Intersection(t1, cyl.id)) ELSE s1
             IN  CylIntersectCaps(cyl, r, s2)

\* Sphere._local_intersect on the ray moved into the sphere's space.  The
\* inverse of scaling(radius) divides the ray's origin and direction by the
\* radius, a power of two, without rounding; a, b and c below are the
\* source's multiplied by radius squared, the discriminant is the source's
\* multiplied by radius to the fourth, and the two roots are the source's.
\* A tangent ray has the discriminant 0 and gives its root twice.
SphereIntersect(sph, r) ==
    LET radius == Pow2(sph.doublings)
        a == r.dx * r.dx + r.dy * r.dy + r.dz * r.dz
        b == 2 * (r.dx * r.ox + r.dy * r.oy + r.dz * r.oz)
        c == r.ox * r.ox + r.oy * r.oy + r.oz * r.oz - radius * radius
        discriminant == b * b - 4 * a * c
    IN  IF discriminant < 0 THEN Returned(NewIntersections(<<>>))
        ELSE Returned(NewIntersections(
                 <<Intersection(((0 - b) - ISqrt(discriminant)) \div (2 * a), sph.id),
                   Intersection(((0 - b) + ISqrt(discriminant)) \div (2 * a), sph.id)>>))

\* Plane._local_intersect on the ray moved into the plane's space, where the
\* ray's y is the world's z less the plane's place: a ray that does not move
\* along z is parallel to the plane and misses it.
PlaneIntersect(pl, r) ==
    IF r.dz = 0 THEN Returned(NewIntersections(<<>>))
    ELSE Returned(NewIntersections(<<Intersection((pl.at - r.oz) \div r.dz, pl.id)>>))

\* Shape.intersect: the ray goes through the inverse of the shape's transform
\* (the identity for the cylinders) and on to the shape's _local_intersect.
ShapeIntersect(shape, r) ==
    IF shape.kind = "Sphere" THEN SphereIntersect(shape, r)
    ELSE IF shape.kind = "Plane" THEN PlaneIntersect(shape, r)
    ELSE CylLocalIntersect(shape, RayTransform(r))

\* The rays of the model: integer rays on which the cylinder's square root
\* and divisions are exact.
ExactOnCylinder(r) ==
    LET a == r.dx * r.dx + r.dz * r.dz
        b == 2 * r.ox * r.dx + 2 * r.oz * r.dz
        c == r.ox * r.ox + r.oz * r.oz - 1
        disc == b * b - 4 * a * c
    IN  \/ a = 0
        \/ disc < 0
        \/ /\ IsSquare(disc)
           /\ ((0 - b) - ISqrt(disc)) % (2 * a) = 0
           /\ ((0 - b) + ISqrt(disc)) % (2 * a) = 0

Rays ==
    {r \in {Ray(0, oy, oz, 0, dy, dz) :
                oy \in 0..MaxCoord, oz \in (0 - MaxCoord)..0,
                dy \in {0 - 1, 0, 1}, dz \in {0, 1}} :
        (r.dy # 0 \/ r.dz # 0) /\ ExactOnCylinder(r)}

\* The shapes of the scene: two truncated cylinders, one of them capped.
WorldObjects == <<Cylinder(1, 0, 2, TRUE), Cylinder(2, 0, 2, FALSE)>>

\* World.intersect_world: Intersections([]), extended by each object's
\* intersections in list order, then sorted.
RECURSIVE ExtendAll(_, _, _)
ExtendAll(objs, r, acc) ==
    IF objs = <<>> THEN Returned(acc)
    ELSE LET one == ShapeIntersect(Head(objs), r)
         IN  IF one.raised THEN Raised
             ELSE ExtendAll(Tail(objs), r, acc \o one.value)

IntersectWorld(objs, r) ==
    LET all == ExtendAll(objs, r, NewIntersections(<<>>))
    IN  IF all.raised THEN Raised ELSE Returned(SortByT(all.value))

(***************************************************************************)
(* The Intersections object: its construction and its methods              *)
(***************************************************************************)
\* Hand-built intersections are on the first shape of the scene.
HandInters == {Intersection(t, WorldObjects[1].id) : t \in TVals}

SeqsUpTo(S, n) == UNION {[1..k -> S] : k \in 0..n}

\* An Intersections that holds nothing, with nothing cached.
InterIdle ==
    /\ data = <<>>
    /\ hitCached = FALSE
    /\ hitValue = <<>>
    /\ ret = <<>>
    /\ lastOp = "init"

\* Intersections(in_data): a new object, sorted, with nothing cached.
InterInit ==
    \E in_data \in SeqsUpTo(HandInters, MaxData) :
        /\ data = NewIntersections(in_data)
        /\ hitCached = FALSE
        /\ hitValue = <<>>
        /\ ret = <<>>
        /\ lastOp = "init"

\* UserList.append: the item goes to the end of the list; nothing is sorted
\* and the cached hit stays.
AppendInter ==
    \E i \in HandInters :
        /\ Len(data) < MaxData
        /\ data' = Append(data, i)
        /\ lastOp' = "append"
        /\ UNCHANGED notInter
        /\ UNCHANGED <<hitCached, hitValue, ret>>

\* UserList.extend: the items go to the end of the list.
ExtendInter ==
    \E xs \in SeqsUpTo(HandInters, MaxData) :
        /\ xs # <<>>
        /\ Len(data) + Len(xs) <= MaxData
        /\ data' = data \o xs
        /\ lastOp' = "extend"
        /\ UNCHANGED notInter
        /\ UNCHANGED <<hitCached, hitValue, ret>>

\* Intersections.sort(reverse=False): the list is sorted in place by t,
\* ascending, or descending when reverse is True; the cached hit stays.
SortInter ==
    \E reverse \in BOOLEAN :
        /\ data' = IF reverse THEN SortByTReverse(data) ELSE SortByT(data)
        /\ lastOp' = "sort"
        /\ UNCHANGED notInter
        /\ UNCHANGED <<hitCached, hitValue, ret>>

\* Reading the cached_property hit: computed on the first read of this
\* object and stored; later reads return the stored value.
ReadHit ==
    /\ hitCached' = TRUE
    /\ hitValue' = IF hitCached THEN hitValue ELSE ComputeHit(data)
    /\ ret' = hitValue'
    /\ lastOp' = "hit"
    /\ UNCHANGED notInter
    /\ UNCHANGED data

\* shape.intersect(ray) for a shape of the scene: the Intersections it
\* returns takes the place of the empty one.
IntersectShape ==
    \E k \in 1..Len(WorldObjects), r \in Rays :
        LET res == ShapeIntersect(WorldObjects[k], r)
        IN  /\ lastOp = "init" /\ data = <<>>
            /\ ~res.raised
            /\ data' = res.value
            /\ hitCached' = FALSE
            /\ hitValue' = <<>>
            /\ ret' = <<>>
            /\ lastOp' = "intersect"
            /\ UNCHANGED notInter

\* world.intersect_world(ray): the Intersections it returns takes the place
\* of the empty one.
IntersectWorldOp ==
    \E r \in Rays :
        LET res == IntersectWorld(WorldObjects, r)
        IN  /\ lastOp = "init" /\ data = <<>>
            /\ ~res.raised
            /\ data' = res.value
            /\ hitCached' = FALSE
            /\ hitValue' = <<>>
            /\ ret' = <<>>
            /\ lastOp' = "intersect_world"
            /\ UNCHANGED notInter

InterNext ==
    \/ AppendInter
    \/ ExtendInter
    \/ SortInter
    \/ ReadHit
    \/ IntersectShape
    \/ IntersectWorldOp

(***************************************************************************)
(* Claims about Intersections, checked under SpecInter                     *)
(***************************************************************************)
IsSortedByT(s) == \A i \in 1..(Len(s) - 1) : s[i].t <= s[i + 1].t

PositiveTs(s) == {s[i].t : i \in {j \in 1..Len(s) : s[j].t > 0}}

\* C1: a read of hit returns an entry whose t is the lowest t > 0 of the
\* contents (so never an entry with t = 0 or below, and the lowest positive t
\* also when several entries share a t), and None exactly when every t is
\* <= 0.
C1_HitIsLowestPositive ==
    lastOp = "hit" =>
        IF PositiveTs(data) = {} THEN ret = <<>>
        ELSE /\ ret # <<>>
             /\ ret[1].t \in PositiveTs(data)
             /\ \A t \in PositiveTs(data) : ret[1].t <= t

\* C2: every Intersections is sorted ascending by t, in every state: after
\* construction, after append and extend, and as returned by a shape's
\* intersect and by World.intersect_world.
C2_AlwaysSorted == IsSortedByT(data)

(***************************************************************************)
(* Shape trees: Group.children and CSG operands (shapes.py, csg.py)        *)
(***************************************************************************)
\* Shapes are compared by identity: a shape is its id.  Shapes 1..4 are
\* primitives (a Sphere, a Cube, ...), 5 and 6 are Groups or CSGs used as
\* operands, 7 is the CSG whose intersections are filtered.
Leaves == 1..4
Nodes == 1..7

NoKids == [n \in Nodes |-> {}]

\* The tree that CSG.__post_init__ and Group.add_child build: kids[g] is
\* g.children, groups the Group/CSG instances, left and right the operands
\* of the CSG 7.
Tree(kids, groups, left, right) ==
    [kids |-> kids, groups |-> groups, left |-> left, right |-> right]

\* CSG(left_shape=Sphere 1, right_shape=Cube 2)
TreeFlat == Tree([NoKids EXCEPT ![7] = {1, 2}], {7}, 1, 2)
\* left operand a composite of two primitives
TreeLeft1 == Tree([NoKids EXCEPT ![5] = {1, 3}, ![7] = {5, 2}], {5, 7}, 5, 2)
\* left operand a composite of a composite and a primitive
TreeLeft2 ==
    Tree([NoKids EXCEPT ![5] = {1, 3}, ![6] = {5, 4}, ![7] = {6, 2}],
         {5, 6, 7}, 6, 2)
\* right operand a composite of two primitives
TreeRight1 == Tree([NoKids EXCEPT ![5] = {2, 3}, ![7] = {1, 5}], {5, 7}, 1, 5)

Trees == {TreeFlat, TreeLeft1, TreeLeft2, TreeRight1}

\* The orders in which a set can be iterated.
Orders(S) ==
    {p \in [1..Cardinality(S) -> S] : \A i, j \in 1..Cardinality(S) : p[i] = p[j] => i = j}

\* A scene is a tree together with the order in which each children set
\* iterates: a set of identity-hashed objects iterates in an order fixed by
\* the objects' addresses, any order in one run or another.
Scenes ==
    UNION {{[kids |-> tr.kids, groups |-> tr.groups, left |-> tr.left,
             right |-> tr.right, order |-> o] :
                o \in {f \in [tr.groups -> UNION {Orders(tr.kids[g]) : g \in tr.groups}] :
                          \A g \in tr.groups : f[g] \in Orders(tr.kids[g])}} :
           tr \in Trees}

\* check_includes(a, b): the while loop over obj_queue, whose last element is
\* popped; a Group holding b ends the search with True, any other Group puts
\* its children on the queue, and a shape that is no Group ends the search
\* with obj == b.
RECURSIVE CheckIncludesLoop(_, _, _)
CheckIncludesLoop(obj_queue, b, sc) ==
    IF obj_queue = <<>> THEN FALSE
    ELSE LET obj == obj_queue[Len(obj_queue)]
             rest == SubSeq(obj_queue, 1, Len(obj_queue) - 1)
         IN  IF obj \in sc.groups
             THEN IF b \in sc.kids[obj] THEN TRUE
                  ELSE CheckIncludesLoop(rest \o sc.order[obj], b, sc)
             ELSE obj = b

check_includes(a, b, sc) == CheckIncludesLoop(<<a>>, b, sc)

(***************************************************************************)
(* CSG (csg.py)                                                            *)
(***************************************************************************)
Operations == {"UNION", "INTERSECTION", "DIFFERENCE"}

\* A slip in the DIFFERENCE row: a right hit is kept while outside left.
IsInterAllowedSlip(op, left_hit, il, ir) ==
    IF op = "UNION" THEN (left_hit /\ ~ir) \/ (~left_hit /\ ~il)
    ELSE IF op = "INTERSECTION" THEN (left_hit /\ ir) \/ (~left_hit /\ il)
    ELSE IF op = "DIFFERENCE" THEN (left_hit /\ ~ir) \/ (~left_hit /\ ~il)
    ELSE FALSE

\* A slip in the UNION row: a right hit is kept while outside right.
IsInterAllowedUnionSlip(op, left_hit, il, ir) ==
    IF op = "UNION" THEN (left_hit /\ ~ir) \/ (~left_hit /\ ~ir)
    ELSE IF op = "INTERSECTION" THEN (left_hit /\ ir) \/ (~left_hit /\ il)
    ELSE IF op = "DIFFERENCE" THEN (left_hit /\ ~ir) \/ (~left_hit /\ il)
    ELSE FALSE

\* CSG._is_inter_allowed
IsInterAllowed(op, left_hit, il, ir) ==
    IF op = "UNION" THEN (left_hit /\ ~ir) \/ (~left_hit /\ ~il)
    ELSE IF op = "INTERSECTION" THEN (left_hit /\ ir) \/ (~left_hit /\ il)
    ELSE IF op = "DIFFERENCE" THEN (left_hit /\ ~ir) \/ (~left_hit /\ il)
    ELSE FALSE

\* The loop body with the toggles crossed: a left hit toggles in_right and a
\* right hit in_left.
FilterBodyCrossedToggle(op, left_hit, il, ir, acc, inter) ==
    LET allowed == IsInterAllowed(op, left_hit, il, ir)
    IN  [allowed |-> allowed,
         filtered |-> IF allowed THEN Append(acc, inter) ELSE acc,
         in_left |-> IF left_hit THEN il ELSE ~il,
         in_right |-> IF left_hit THEN ~ir ELSE ir]

\* The body of the loop of _filter_intersections for one inter, given
\* left_hit: the admission test on the flags as they are, the append to
\* filtered_inters (acc), then the toggle of one flag.
FilterBody(op, left_hit, il, ir, acc, inter) ==
    LET allowed == IsInterAllowed(op, left_hit, il, ir)
    IN  [allowed |-> allowed,
         filtered |-> IF allowed THEN Append(acc, inter) ELSE acc,
         in_left |-> IF left_hit THEN ~il ELSE il,
         in_right |-> IF left_hit THEN ir ELSE ~ir]

\* The primitives below a shape, the shape itself if it is one.
RECURSIVE LeavesUnder(_, _)
LeavesUnder(n, sc) ==
    IF n \in sc.groups THEN UNION {LeavesUnder(k, sc) : k \in sc.kids[n]}
    ELSE {n}

\* The sorted sequences a caller hands to the filter: intersections with the
\* primitives of the CSG, at t = 1, 2, ...
FilterInputs(sc) ==
    {[i \in 1..Len(objs) |-> Intersection(i, objs[i])] :
        objs \in SeqsUpTo(LeavesUnder(7, sc), MaxInters)}

NoStep == <<>>

FilterIdle ==
    /\ operation = "UNION"
    /\ inters = <<>>
    /\ pos = 0
    /\ in_left = FALSE
    /\ in_right = FALSE
    /\ filtered = <<>>
    /\ step = NoStep
    /\ fpc = "idle"

SceneIdle ==
    scene = [kids |-> TreeFlat.kids, groups |-> TreeFlat.groups, left |-> TreeFlat.left,
             right |-> TreeFlat.right, order |-> (7 :> <<1, 2>>)]

IncludesIdle ==
    /\ ciA = 1
    /\ ciB = 1
    /\ ciRet = <<>>

\* the arguments of a check_includes call: two shapes
IncludesInit ==
    /\ ciA \in Nodes
    /\ ciB \in Nodes
    /\ ciRet = <<>>

\* CSG(operation=..., left_shape=..., right_shape=...)
FilterInit ==
    /\ scene \in Scenes
    /\ operation \in Operations
    /\ inters = <<>>
    /\ pos = 0
    /\ in_left = FALSE
    /\ in_right = FALSE
    /\ filtered = <<>>
    /\ step = NoStep
    /\ fpc = "idle"

\* _filter_intersections(inters), up to the loop
FilterCall ==
    /\ fpc = "idle"
    /\ inters' \in FilterInputs(scene)
    /\ pos' = 1
    /\ in_left' = FALSE
    /\ in_right' = FALSE
    /\ filtered' = NewIntersections(<<>>)
    /\ step' = NoStep
    /\ fpc' = "loop"
    /\ UNCHANGED <<scene, operation>>
    /\ UNCHANGED notFilter

\* one iteration of `for inter in inters`
FilterIter ==
    /\ fpc = "loop"
    /\ pos <= Len(inters)
    /\ LET inter == inters[pos]
           left_hit == check_includes(scene.left, inter.obj, scene)
           body == FilterBody(operation, left_hit, in_left, in_right, filtered, inter)
       IN  /\ step' = <<[left_hit |-> left_hit, in_left |-> in_left,
                         in_right |-> in_right, allowed |-> body.allowed]>>
           /\ filtered' = body.filtered
           /\ in_left' = body.in_left
           /\ in_right' = body.in_right
    /\ pos' = pos + 1
    /\ UNCHANGED <<scene, operation, inters, fpc>>
    /\ UNCHANGED notFilter

\* the loop is over: return filtered_inters
FilterReturn ==
    /\ fpc = "loop"
    /\ pos > Len(inters)
    /\ fpc' = "done"
    /\ UNCHANGED <<scene, operation, inters, pos, in_left, in_right, filtered, step>>
    /\ UNCHANGED notFilter

\* _filter_intersections(inters) from its first line to its return, as a
\* function of the CSG's operation, its scene and inters: the loop from
\* position k on, with in_left = il, in_right = ir and filtered_inters = acc.
RECURSIVE FilterLoop(_, _, _, _, _, _, _)
FilterLoop(op, sc, xs, k, il, ir, acc) ==
    IF k > Len(xs) THEN acc
    ELSE LET left_hit == check_includes(sc.left, xs[k].obj, sc)
             body == FilterBody(op, left_hit, il, ir, acc, xs[k])
         IN  FilterLoop(op, sc, xs, k + 1, body.in_left, body.in_right, body.filtered)

FilterIntersections(op, sc, xs) ==
    FilterLoop(op, sc, xs, 1, FALSE, FALSE, NewIntersections(<<>>))

FilterNext ==
    \/ FilterCall
    \/ FilterIter
    \/ FilterReturn

\* check_includes(a, b) on two shapes of the scene
CheckIncludesCall ==
    /\ ciRet = <<>>
    /\ ciRet' = <<check_includes(ciA, ciB, scene)>>
    /\ UNCHANGED <<scene, ciA, ciB>>
    /\ UNCHANGED notIncludes

IncludesNext == CheckIncludesCall

(***************************************************************************)
(* The refractive-index walk (intersections.py)                            *)
(***************************************************************************)
\* material.refractive_index, in tenths: 1.5, 2.0 and 2.5 for the three
\* glass spheres A, B, C (shapes 1, 2, 3); every other shape has a Material
\* built without an index, whose refractive_index is the default 1.
Glass == 1..3
RefractiveIndex(obj) ==
    IF obj = 1 THEN 15 ELSE IF obj = 2 THEN 20 ELSE IF obj = 3 THEN 25 ELSE 10

\* The refractive index where there is no containing object: 1.
Vacuum == 10

\* The index read off the containers list: 1 when the list is empty,
\* containers[-1].material.refractive_index otherwise.
TopIndex(containers) ==
    IF containers = <<>> THEN Vacuum
    ELSE RefractiveIndex(containers[Len(containers)])

\* list.remove(x): the list without its first element equal to x.
RECURSIVE RemoveFirst(_, _)
RemoveFirst(s, x) ==
    IF s = <<>> THEN <<>>
    ELSE IF s[1] = x THEN Tail(s)
    ELSE <<s[1]>> \o RemoveFirst(Tail(s), x)

InList(s, x) == \E k \in 1..Len(s) : s[k] = x

\* The toggle with the removal left out: every object is appended.
ToggleAlwaysAppend(containers, obj) == Append(containers, obj)

\* try: containers.remove(i.obj) / except ValueError: containers.append(i.obj)
Toggle(containers, obj) ==
    IF InList(containers, obj) THEN RemoveFirst(containers, obj)
    ELSE Append(containers, obj)

\* The loop of _calc_refractive_indices from position k on.  An intersection
\* equal to inter sets n1, is toggled, sets n2 and ends the loop; any other is
\* toggled.  A loop that ends without meeting inter leaves n1 and n2 unbound
\* and the return raises UnboundLocalError.
RECURSIVE RefrLoop(_, _, _, _)
RefrLoop(all, k, containers, x) ==
    IF k > Len(all) THEN Raised
    ELSE LET i == all[k]
             toggled == Toggle(containers, i.obj)
         IN  IF i = x
             THEN Returned(<<TopIndex(containers), TopIndex(toggled)>>)
             ELSE RefrLoop(all, k + 1, toggled, x)

CalcRefractiveIndices(x, all) == RefrLoop(all, 1, <<>>, x)

\* The scenario of test_refraction_indices: A contains B and C, which
\* overlap; the ray crosses A, B, C, B, C, A.
RefractionScenario ==
    NewIntersections(<<Intersection(1, 1), Intersection(2, 2), Intersection(3, 3),
                       Intersection(4, 2), Intersection(5, 3), Intersection(6, 1)>>)

RefrInters == {Intersection(t, o) : t \in 1..MaxT, o \in Glass}

\* The sequences handed to the walk: the Intersections built from a
\* hand-written list, and the scenario.
RefrSequences ==
    {NewIntersections(s) : s \in SeqsUpTo(RefrInters, MaxRefr)} \cup {RefractionScenario}

RefrIdle ==
    /\ all_inters = <<>>
    /\ target = Intersection(1, 1)
    /\ n1n2 = <<>>

\* The arguments of a call: a sequence, and inter one of its intersections
\* or an intersection that is not among them.
RefrInit ==
    /\ all_inters \in RefrSequences \ {<<>>}
    /\ target \in {all_inters[k] : k \in 1..Len(all_inters)} \cup {Intersection(0, 1)}
    /\ n1n2 = <<>>

\* _calc_refractive_indices(inter, all_inters)
CalcRefractiveIndicesCall ==
    /\ n1n2 = <<>>
    /\ n1n2' = <<CalcRefractiveIndices(target, all_inters)>>
    /\ UNCHANGED <<all_inters, target>>
    /\ UNCHANGED notRefr

RefrNext == CalcRefractiveIndicesCall

(***************************************************************************)
(* The World and its recursive shading (world.py, intersections.py)        *)
(***************************************************************************)
REF_LIMIT == 5
BLACK == 0

\* The nudge of over_point and under_point, one unit of the grid: the
\* surfaces of the scene are further apart than that.
EPSILON == 1

\* World.objects: the glass sphere A (shape 1, refractive index 1.5, radius
\* 8) and, inside it and concentric, the glass sphere B (shape 2, index 2.0,
\* radius 4).
GlassWorld == <<Sphere(1, 3), Sphere(2, 2)>>

\* World.objects of the scene of two parallel planes that face each other
\* (shapes 4 and 5), five units either side of the origin; their Material
\* has the default refractive_index.
MirrorWorld == <<Plane(4, 0 - 5), Plane(5, 5)>>

Worlds == {GlassWorld, MirrorWorld}

ObjectIds(objs) == {objs[k].id : k \in 1..Len(objs)}

\* The shape an intersection's obj refers to.
ShapeOf(id) ==
    LET all == GlassWorld \o MirrorWorld
    IN  all[CHOOSE k \in 1..Len(all) : all[k].id = id]

\* A World: its objects, Material.reflective and Material.transparency of
\* each of them, 0 or 1, and its light, a PointLight on the z axis behind
\* every ray's origin, as the place of its position on the axis.
Materials ==
    UNION {{[objects |-> objs, reflective |-> rf, transparency |-> tr, light |-> 0 - 20] :
               rf \in [ObjectIds(objs) -> {0, 1}], tr \in [ObjectIds(objs) -> {0, 1}]} :
           objs \in Worlds}

\* The rays cast by a caller: along the z axis through the spheres' centre,
\* either way, from outside, from between the spheres, from inside B and
\* from B's surface; and one ray that passes beside both spheres.
CameraRays ==
    {Ray(0, 0, oz, 0, 0, dz) : oz \in {0 - 13, 0 - 6, 0 - 4, 0, 6, 13}, dz \in {0 - 1, 1}}
        \cup {Ray(11, 0, 0 - 13, 0, 0, 1)}

Sign(n) == IF n > 0 THEN 1 ELSE IF n < 0 THEN 0 - 1 ELSE 0

\* Shape.normal_at at a point of the z axis, as the normal's z component: for
\* a sphere centred on the origin the unit vector from the centre to the
\* point, for a plane turned to face the z axis the constant normal.
NormalAt(obj, pt) == IF ShapeOf(obj).kind = "Plane" THEN 1 ELSE Sign(pt)

\* self.reflect(normal) on a Rayple: the class defines no reflect, so the
\* attribute lookup raises AttributeError, whatever the vectors are.
RaypleReflect(self, normal) == Raised

\* Comps(...): the dataclass sets its fields and __post_init__ adds over_point
\* and under_point, the point moved by EPSILON along the normal and against
\* it.  Points and vectors are their z components.
Comps(t, obj, pt, eye_v, normal, inside, reflect_v, n1, n2) ==
    [t |-> t, obj |-> obj, point |-> pt, eye_v |-> eye_v, normal |-> normal,
     inside |-> inside, reflect_v |-> reflect_v, n1 |-> n1, n2 |-> n2,
     over_point |-> pt + normal * EPSILON, under_point |-> pt - normal * EPSILON]

\* prepare_computations(inter, ray, all_inters) for a ray along the z axis.
\* all_inters is <<>> for None: it is then seeded with inter alone.  The
\* call ray.direction.reflect(normal) raises, so no Comps is built.
PrepareComputations(i, r, all) ==
    LET seeded == IF all = <<>> THEN NewIntersections(<<i>>) ELSE all[1]
        pt == r.oz + r.dz * i.t
        eye_v == 0 - r.dz
        n0 == NormalAt(i.obj, pt)
        inside == n0 * eye_v < 0
        normal == IF inside THEN 0 - n0 ELSE n0
        reflect_v == RaypleReflect(r.dz, normal)
        n == CalcRefractiveIndices(i, seeded)
    IN  IF reflect_v.raised \/ n.raised THEN Raised
        ELSE Returned(Comps(i.t, i.obj, pt, eye_v, normal, inside, reflect_v.value,
                            n.value[1], n.value[2]))

\* A Comps built by hand, field by field, for the hit i of the ray r: the
\* point, eye vector and normal of the hit, the ray's direction reflected
\* about the normal, and the indices of the hit taken alone.
CompsAt(i, r) ==
    LET pt == r.oz + r.dz * i.t
        eye_v == 0 - r.dz
        n0 == NormalAt(i.obj, pt)
        inside == n0 * eye_v < 0
        normal == IF inside THEN 0 - n0 ELSE n0
        n == CalcRefractiveIndices(i, NewIntersections(<<i>>)).value
    IN  Comps(i.t, i.obj, pt, eye_v, normal, inside,
              r.dz - normal * 2 * (r.dz * normal), n[1], n[2])

(***************************************************************************)
(* The scene graph: Group.add_child, CSG construction, Group.intersect     *)
(* (shapes.py, csg.py)                                                     *)
(***************************************************************************)
\* The shapes of a scene graph, by identity: two Spheres, two Groups, and a
\* CSG that is constructed by a call.
Prims == {1, 2}
GroupIds == {3, 4}
CsgIds == {5}
Objects == Prims \cup GroupIds \cup CsgIds

\* The Sphere a primitive is: the spheres of GlassWorld.
PrimShape(id) == GlassWorld[id]

\* What a Python call hands back: None, or a value.
PyNone == [none |-> TRUE, value |-> <<>>]
PySome(v) == [none |-> FALSE, value |-> v]

NoOp == [name |-> "none", on |-> 0, arg |-> 0, r |-> Ray(0, 0, 0, 0, 0, 1)]

\* Group(): children is a new empty set; Shape.parent defaults to None.  The
\* CSG is not constructed yet.
GraphIdle ==
    /\ children = [g \in GroupIds \cup CsgIds |-> {}]
    /\ parent = [o \in Objects |-> 0]
    /\ built = {}
    /\ left_shape = [c \in CsgIds |-> 0]
    /\ right_shape = [c \in CsgIds |-> 0]
    /\ calls = 0
    /\ gop = NoOp
    /\ gret = <<>>

\* Group.add_child(other) on children sets and parents kids and pars:
\* self.children.add(other), then other.parent = self.
AddChildTo(kids, pars, g, other) ==
    [children |-> [kids EXCEPT ![g] = @ \cup {other}],
     parent |-> [pars EXCEPT ![other] = g]]

\* g.add_child(other) for a Group or a constructed CSG g and a shape other:
\* any shape, g itself and g's ancestors included, as nothing is tested.
AddChild ==
    \E g \in GroupIds \cup built : \E other \in Prims \cup GroupIds \cup built :
        /\ calls < MaxCalls
        /\ LET after == AddChildTo(children, parent, g, other)
           IN  /\ children' = after.children
               /\ parent' = after.parent
        /\ calls' = calls + 1
        /\ gop' = [NoOp EXCEPT !.name = "add_child", !.on = g, !.arg = other]
        /\ UNCHANGED <<built, left_shape, right_shape, gret>>
        /\ UNCHANGED notGraph

\* CSG(operation=..., left_shape=l, right_shape=r): the dataclass sets the
\* fields, children to a new empty set and parent to None, and
\* __post_init__ calls add_child(left_shape), then add_child(right_shape).
NewCSG ==
    \E c \in CsgIds \ built, l \in Prims \cup GroupIds \cup built,
       r \in Prims \cup GroupIds \cup built :
        /\ calls < MaxCalls
        /\ LET one == AddChildTo([children EXCEPT ![c] = {}], [parent EXCEPT ![c] = 0], c, l)
               two == AddChildTo(one.children, one.parent, c, r)
           IN  /\ children' = two.children
               /\ parent' = two.parent
        /\ built' = built \cup {c}
        /\ left_shape' = [left_shape EXCEPT ![c] = l]
        /\ right_shape' = [right_shape EXCEPT ![c] = r]
        /\ calls' = calls + 1
        /\ gop' = [NoOp EXCEPT !.name = "CSG", !.on = c, !.arg = l]
        /\ UNCHANGED gret
        /\ UNCHANGED notGraph

\* Group._local_intersect(transformed_ray): the body is `...`, so the call
\* returns None whatever the children are.
GroupLocalIntersect(kids, r) == PyNone

\* Shape.intersect(ray) on a Group with the identity transform: the ray goes
\* through the inverse transform unchanged and on to _local_intersect.
GroupIntersect ==
    \E g \in GroupIds, r \in CameraRays :
        /\ gret = <<>>
        /\ gret' = <<GroupLocalIntersect(children[g], r)>>
        /\ gop' = [NoOp EXCEPT !.name = "intersect", !.on = g, !.r = r]
        /\ UNCHANGED <<children, parent, built, left_shape, right_shape, calls>>
        /\ UNCHANGED notGraph

\* The orders in which a set can be iterated.
Orderings(S) ==
    {o \in [1..Cardinality(S) -> S] : \A x \in S : \E i \in 1..Cardinality(S) : o[i] = x}

\* The loop of check_includes over the graph's children sets kids, from
\* obj_queue on: whether, for some iteration order of the children sets, the
\* loop makes `pops` further iterations without returning.
RECURSIVE StillRunning(_, _, _, _)
StillRunning(kids, obj_queue, b, pops) ==
    IF obj_queue = <<>> THEN FALSE
    ELSE IF pops = 0 THEN TRUE
    ELSE LET obj == obj_queue[Len(obj_queue)]
             popped == SubSeq(obj_queue, 1, Len(obj_queue) - 1)
         IN  IF obj \in DOMAIN kids
             THEN /\ b \notin kids[obj]
                  /\ \E o \in Orderings(kids[obj]) :
                         StillRunning(kids, popped \o o, b, pops - 1)
             ELSE FALSE

GraphNext ==
    \/ AddChild
    \/ NewCSG
    \/ GroupIntersect

(***************************************************************************)
(* Rayple arithmetic, lighting and Shape.normal_at as single calls         *)
(* (rayple.py, lights.py, shapes.py)                                       *)
(***************************************************************************)
\* RaypleType
VECTOR == 0
POINT == 1
COLOR == 2

RaypleTypes == {VECTOR, POINT, COLOR}

Rayple(x, y, z, w) == [x |-> x, y |-> y, z |-> z, w |-> w]

\* The Rayples a caller builds with point(), vector() and color().
Rayples ==
    {Rayple(x, y, z, w) : x \in 0..MaxComp, y \in 0..MaxComp, z \in 0..MaxComp,
                          w \in RaypleTypes}

\* Rayple.__add__ on two Rayples.  RaypleType(self.w + other.w) raises
\* ValueError when the sum is not the value of a member of the enum.
RaypleAdd(self, other) ==
    IF self.w = POINT /\ other.w = POINT THEN Raised
    ELSE IF self.w = COLOR /\ other.w # COLOR THEN Raised
    ELSE LET out_type == IF self.w = COLOR THEN COLOR ELSE self.w + other.w
         IN  IF out_type \notin RaypleTypes THEN Raised
             ELSE Returned(Rayple(self.x + other.x, self.y + other.y,
                                  self.z + other.z, out_type))

\* Rayple.__sub__ on two Rayples.
RaypleSub(self, other) ==
    IF self.w = VECTOR /\ other.w = POINT THEN Raised
    ELSE IF self.w = COLOR /\ other.w # COLOR THEN Raised
    ELSE LET out_type == IF self.w = COLOR THEN COLOR ELSE self.w - other.w
         IN  IF out_type \notin RaypleTypes THEN Raised
             ELSE Returned(Rayple(self.x - other.x, self.y - other.y,
                                  self.z - other.z, out_type))

\* Rayple.__abs__: TypeError for a non-Vector, else the magnitude.
RaypleAbs(self) ==
    IF self.w # VECTOR THEN Raised
    ELSE Returned(ISqrt(self.x * self.x + self.y * self.y + self.z * self.z))

\* Rayple.normalize of a Rayple whose components are Python numbers of
\* ordinary size: TypeError for a non-Vector; each component divided by
\* abs(self), a float, which raises ZeroDivisionError when it is 0.
Normalize(self) ==
    IF self.w # VECTOR THEN Raised
    ELSE LET m == RaypleAbs(self).value
         IN  IF m = 0 THEN Raised
             ELSE Returned(Rayple(self.x \div m, self.y \div m, self.z \div m, self.w))

\* The Rayples whose magnitude divides each of their components, so that the
\* divisions of normalize are exact; Points and Colors of the same
\* components are among them.
ExactNorm(v) ==
    LET n == v.x * v.x + v.y * v.y + v.z * v.z
    IN  /\ IsSquare(n)
        /\ (n > 0 => (v.x % ISqrt(n) = 0 /\ v.y % ISqrt(n) = 0 /\ v.z % ISqrt(n) = 0))

SignedRayples ==
    {Rayple(x, y, z, w) : x \in (0 - MaxComp)..MaxComp, y \in (0 - MaxComp)..MaxComp,
                          z \in (0 - MaxComp)..MaxComp, w \in RaypleTypes}

NoCall == [fn |-> "none", args |-> <<>>]

AddCalls == {[fn |-> "__add__", args |-> <<a, b>>] : a \in Rayples, b \in Rayples}
SubCalls == {[fn |-> "__sub__", args |-> <<a, b>>] : a \in Rayples, b \in Rayples}

\* The decimal exponents of the components handed to normalize: a Rayple of
\* the components x, y, z at the exponent e stands for the components
\* x * 10^e, y * 10^e, z * 10^e.  At 0 they are of ordinary size, at -200
\* their squares underflow to 0.0 and at 200 their squares are beyond the
\* largest float.
FloatExps == {0 - 200, 0, 200}

\* v.normalize() with v's components Python numbers (np FALSE) or numpy
\* floats (np TRUE), at the exponent exp.
NormalizeCalls ==
    {[fn |-> "normalize", args |-> <<v, np, exp>>] :
        v \in {u \in SignedRayples : ExactNorm(u)}, np \in BOOLEAN, exp \in FloatExps}

\* Rayple.__mul__ by a Rayple: the Hadamard product, of two Colors only.
RaypleMulColor(self, other) ==
    IF self.w # COLOR \/ other.w # COLOR THEN Raised
    ELSE Returned(Rayple(self.x * other.x, self.y * other.y, self.z * other.z, self.w))

\* Rayple.__mul__ by a number.
RaypleScale(self, k) == Rayple(self.x * k, self.y * k, self.z * k, self.w)

\* dot(left, right): ValueError unless both are Vectors.
Dot(left, right) ==
    IF ~(left.w = VECTOR /\ right.w = VECTOR) THEN Raised
    ELSE Returned(left.x * right.x + left.y * right.y + left.z * right.z)

\* lights.BLACK
BLACK_COLOR == Rayple(0, 0, 0, COLOR)

\* The parameters of lighting.
LightingParams == {"material", "light", "surf_pos", "eye_vec", "normal"}

\* lighting(**kw).  A call whose keywords are not exactly the parameters
\* raises TypeError before the body runs.  The body checks the kinds of its
\* arguments, computes the ambient term, and returns ambient + BLACK + BLACK
\* when the light is behind the surface; otherwise it goes on to
\* light_vec.reflect(normal), an attribute a Rayple does not have, which
\* raises AttributeError.  Material.ambient is carried in tenths.
lighting(kw) ==
    IF DOMAIN kw # LightingParams THEN Raised
    ELSE IF kw.surf_pos.w # POINT THEN Raised
    ELSE IF kw.eye_vec.w # VECTOR THEN Raised
    ELSE IF kw.normal.w # VECTOR THEN Raised
    ELSE LET effective_color == RaypleMulColor(kw.material.color, kw.light.intensity).value
             ambient == RaypleScale(effective_color, kw.material.ambient)
             light_vec == Normalize(RaypleSub(kw.light.position, kw.surf_pos).value)
         IN  IF light_vec.raised THEN Raised
             ELSE IF Dot(light_vec.value, kw.normal).value < 0
                  THEN RaypleAdd(RaypleAdd(ambient, BLACK_COLOR).value, BLACK_COLOR)
                  ELSE Raised

\* Material() with its ambient, and a PointLight on the z axis.
LitMaterials ==
    {[color |-> Rayple(1, 1, 1, COLOR), ambient |-> a, diffuse |-> 9, specular |-> 9,
      shininess |-> 200] : a \in 1..2}
PointLights ==
    {[position |-> Rayple(0, 0, z, POINT), intensity |-> Rayple(i, i, i, COLOR)] :
        z \in {0 - MaxComp, 0, MaxComp}, i \in 1..2}
SurfacePoints == {Rayple(0, 0, 0, POINT), Rayple(0, 0, 0, VECTOR)}
EyeVectors == {Rayple(0, 0, 0 - 1, VECTOR), Rayple(0, 0, 1, VECTOR), Rayple(0, 0, 1, POINT)}
Normals == {Rayple(0, 0, 0 - 1, VECTOR), Rayple(0, 0, 1, VECTOR)}

\* Calls of lighting with the keywords of its definition.
LightingCalls ==
    {[fn |-> "lighting", args |-> kw] :
        kw \in [material : LitMaterials, light : PointLights, surf_pos : SurfacePoints,
                eye_vec : EyeVectors, normal : Normals]}

\* Calls of lighting with the keywords World._shade_hit passes: obj is the
\* shape hit and in_shadow is what is_shadowed(comps.over_point) returned.
ShadeHitLightingCalls ==
    {[fn |-> "lighting", args |-> kw] :
        kw \in [material : LitMaterials, obj : {1}, light : PointLights,
                surf_pos : {Rayple(0, 0, 0, POINT)}, eye_v : EyeVectors \cap Normals,
                normal : Normals, in_shadow : BOOLEAN]}

\* A Matrix that maps the z axis to itself: z -> scale * z + shift, scale
\* being 1 or -1.
Transforms ==
    {[scale |-> s, shift |-> d] : s \in {0 - 1, 1}, d \in (0 - MaxComp - 1)..(MaxComp + 1)}

\* m.inv() * p for the point of the z axis at p
InvPoint(m, p) == (p - m.shift) \div m.scale

\* m.inv().transpose() * n for the vector n along the z axis, with the w the
\* translation leaves in it dropped
InvTransposeVector(m, n) == n \div m.scale

\* Sphere._local_normal_at: local_point - point(0, 0, 0)
SphereLocalNormalAt(local_point) == local_point - 0

\* The vector whose components are numpy's nan.
NanVector == [nan |-> TRUE, w |-> VECTOR]

\* Rayple.normalize of a vector whose components are numpy floats, as
\* Matrix.__mul__ and Rayple.from_np return them: the division of a numpy
\* float by abs(self) = 0.0 does not raise, it gives nan and a RuntimeWarning.
NormalizeNumpy(self) ==
    IF self.w # VECTOR THEN Raised
    ELSE LET m == RaypleAbs(self).value
         IN  IF m = 0 THEN Returned(NanVector)
             ELSE Returned(Rayple(self.x \div m, self.y \div m, self.z \div m, self.w))

\* Rayple.normalize of the Rayple of the components self.x * 10^exp, ...,
\* Python numbers or, with np, numpy floats, for the exponents of FloatExps.
\* The kind is checked first.  abs(self) squares the components: the square
\* of a Python float beyond the largest float raises OverflowError, that of
\* a numpy float is inf, abs(self) is inf and each component divided by it
\* is 0.0.  Squares that underflow are 0.0 and abs(self) is 0.0, though the
\* vector is not zero: the division raises ZeroDivisionError on Python
\* numbers and gives inf, -inf or nan on numpy floats (inf holds the sign of
\* each infinite component, 0 for a nan).
NormalizeNumbers(self, np, exp) ==
    LET nonzero == self.x # 0 \/ self.y # 0 \/ self.z # 0
    IN  IF self.w # VECTOR THEN Raised
        ELSE IF nonzero /\ exp >= 155
        THEN (IF np THEN Returned(Rayple(0, 0, 0, self.w)) ELSE Raised)
        ELSE IF nonzero /\ exp <= 0 - 163
        THEN (IF np
              THEN Returned([nan |-> TRUE, w |-> self.w,
                             inf |-> <<Sign(self.x), Sign(self.y), Sign(self.z)>>])
              ELSE Raised)
        ELSE IF np THEN NormalizeNumpy(self) ELSE Normalize(self)

\* Shape.normal_at(query) of a Sphere, for a query on the z axis: the
\* shape's own transform takes the query to object space and the normal
\* back; shape.parents, the transforms of the groups the shape is nested in,
\* nearest first, is not read.  world_normal comes out of Matrix.__mul__, so
\* its components are numpy floats.
ShapeNormalAt(shape, query) ==
    IF query.w # POINT THEN Raised
    ELSE LET local_point == InvPoint(shape.transform, query.z)
             local_normal == SphereLocalNormalAt(local_point)
             world_normal == InvTransposeVector(shape.transform, local_normal)
         IN  NormalizeNumpy(Rayple(0, 0, world_normal, VECTOR))

NormalAtCalls ==
    {[fn |-> "normal_at", args |-> <<[transform |-> t, parents |-> ps], q>>] :
        t \in Transforms, ps \in SeqsUpTo(Transforms, MaxNesting),
        q \in {Rayple(0, 0, z, w) : z \in (0 - MaxComp - 1)..(MaxComp + 1), w \in {POINT, VECTOR}}}

\* The Cone (shapes.py): Cone(minimum, maximum, closed).
Cone(id, minimum, maximum, closed) ==
    [kind |-> "Cone", id |-> id, minimum |-> minimum, maximum |-> maximum,
     closed |-> closed]

Abs(n) == IF n < 0 THEN 0 - n ELSE n

\* Whether n / d is a whole number.
Divides(d, n) == d # 0 /\ \E q \in (0 - Abs(n))..Abs(n) : q * d = n

\* Cone._check_cap
ConeCheckCap(r, t, cap_y) ==
    LET x == r.ox + t * r.dx
        z == r.oz + t * r.dz
    IN  x * x + z * z <= Abs(cap_y)

\* Cone._intersect_caps: as the Cylinder's, lower cap first.  When direction.y
\* is 0 the division raises ZeroDivisionError on Python numbers; on numpy
\* floats t is inf or nan, no comparison with it is True, and no hit is added.
ConeIntersectCaps(cone, r, cap_inters) ==
    IF ~cone.closed THEN Returned(cap_inters)
    ELSE IF r.dy = 0 THEN (IF IsNumpy(r) THEN Returned(cap_inters) ELSE Raised)
    ELSE LET tlo == (cone.minimum - r.oy) \div r.dy
             thi == (cone.maximum - r.oy) \div r.dy
             s1 == IF ConeCheckCap(r, tlo, cone.minimum)
                   THEN Append(cap_inters, Intersection(tlo, cone.id)) ELSE cap_inters
             s2 == IF ConeCheckCap(r, thi, cone.maximum)
                   THEN Append(s1, Intersection(thi, cone.id)) ELSE s1
         IN  Returned(s2)

\* Cone._local_intersect.  math.isclose(v, 0) has no absolute tolerance and is
\* v == 0.  When a is 0 and b is not, the single root is appended as it is and
\* the caps follow.  When a and b are both 0 nothing returns early: disc is 0,
\* and the roots are (-b - 0) / (2 * a), that is 0 / 0, which raises
\* ZeroDivisionError on Python numbers and is nan on numpy floats, where no
\* comparison with y0 or y1 is True and no side hit is added.
ConeLocalIntersect(cone, r) ==
    LET a == r.dx * r.dx - r.dy * r.dy + r.dz * r.dz
        b == 2 * r.ox * r.dx - 2 * r.oy * r.dy + 2 * r.oz * r.dz
        c == r.ox * r.ox - r.oy * r.oy + r.oz * r.oz
        disc == b * b - 4 * a * c
    IN  IF a = 0 /\ b # 0
        THEN ConeIntersectCaps(cone, r, <<Intersection((0 - c) \div (2 * b), cone.id)>>)
        ELSE IF disc < 0 THEN Returned(<<>>)
        ELSE IF a = 0
             THEN (IF IsNumpy(r) THEN ConeIntersectCaps(cone, r, <<>>) ELSE Raised)
        ELSE LET ta == ((0 - b) - ISqrt(disc)) \div (2 * a)
                 tb == ((0 - b) + ISqrt(disc)) \div (2 * a)
                 t0 == IF ta > tb THEN tb ELSE ta
                 t1 == IF ta > tb THEN ta ELSE tb
                 y0 == r.oy + t0 * r.dy
                 y1 == r.oy + t1 * r.dy
                 s1 == IF cone.minimum < y0 /\ y0 < cone.maximum
                       THEN <<Intersection(t0, cone.id)>> ELSE <<>>
                 s2 == IF cone.minimum < y1 /\ y1 < cone.maximum
                       THEN Append(s1, Intersection(t1, cone.id)) ELSE s1
             IN  ConeIntersectCaps(cone, r, s2)

\* shape._local_intersect(ray) of a Cylinder or a Cone
LocalIntersect(shape, r) ==
    IF shape.kind = "Cone" THEN ConeLocalIntersect(shape, r)
    ELSE CylLocalIntersect(shape, r)

\* The integer rays on which the cone's square root and divisions are exact.
ExactOnCone(r) ==
    LET a == r.dx * r.dx - r.dy * r.dy + r.dz * r.dz
        b == 2 * r.ox * r.dx - 2 * r.oy * r.dy + 2 * r.oz * r.dz
        c == r.ox * r.ox - r.oy * r.oy + r.oz * r.oz
        disc == b * b - 4 * a * c
    IN  IF a = 0 THEN b = 0 \/ Divides(2 * b, 0 - c)
        ELSE \/ disc < 0
             \/ /\ IsSquare(disc)
                /\ Divides(2 * a, (0 - b) - ISqrt(disc))
                /\ Divides(2 * a, (0 - b) + ISqrt(disc))

ConeRays ==
    {r \in {Ray(0, oy, oz, dx, dy, dz) :
                oy \in (0 - MaxCoord)..MaxCoord, oz \in (0 - MaxCoord)..0,
                dx \in {0, 1}, dy \in {0 - 1, 0, 1}, dz \in {0, 1}} :
        (r.dx # 0 \/ r.dy # 0 \/ r.dz # 0) /\ ExactOnCone(r)}

\* Truncated cones, open and capped.
Cones == {Cone(3, 0 - 1, 1, FALSE), Cone(4, 0 - 1, 1, TRUE)}

\* The calls of _local_intersect: on a ray of Python numbers, as point() and
\* vector() build it, and on the ray that Ray.transform returns.
LocalIntersectCalls ==
    {[fn |-> "_local_intersect", args |-> <<shape, r>>] :
        shape \in Cones, r \in ConeRays \cup {RayTransform(q) : q \in ConeRays}}
    \cup {[fn |-> "_local_intersect", args |-> <<WorldObjects[k], r>>] :
        k \in 1..Len(WorldObjects), r \in Rays \cup {RayTransform(q) : q \in Rays}}

CallIdle ==
    /\ call = NoCall
    /\ outcome = <<>>

CallInit ==
    /\ call \in AddCalls \cup SubCalls \cup NormalizeCalls \cup LightingCalls
                   \cup ShadeHitLightingCalls \cup NormalAtCalls \cup LocalIntersectCalls
    /\ outcome = <<>>

AddCall ==
    /\ call.fn = "__add__"
    /\ outcome = <<>>
    /\ outcome' = <<RaypleAdd(call.args[1], call.args[2])>>
    /\ UNCHANGED call
    /\ UNCHANGED notCalls

SubCall ==
    /\ call.fn = "__sub__"
    /\ outcome = <<>>
    /\ outcome' = <<RaypleSub(call.args[1], call.args[2])>>
    /\ UNCHANGED call
    /\ UNCHANGED notCalls

NormalizeCall ==
    /\ call.fn = "normalize"
    /\ outcome = <<>>
    /\ outcome' = <<NormalizeNumbers(call.args[1], call.args[2], call.args[3])>>
    /\ UNCHANGED call
    /\ UNCHANGED notCalls

LightingCall ==
    /\ call.fn = "lighting"
    /\ outcome = <<>>
    /\ outcome' = <<lighting(call.args)>>
    /\ UNCHANGED call
    /\ UNCHANGED notCalls

NormalAtCall ==
    /\ call.fn = "normal_at"
    /\ outcome = <<>>
    /\ outcome' = <<ShapeNormalAt(call.args[1], call.args[2])>>
    /\ UNCHANGED call
    /\ UNCHANGED notCalls

LocalIntersectCall ==
    /\ call.fn = "_local_intersect"
    /\ outcome = <<>>
    /\ outcome' = <<LocalIntersect(call.args[1], call.args[2])>>
    /\ UNCHANGED call
    /\ UNCHANGED notCalls

CallsNext ==
    \/ AddCall
    \/ SubCall
    \/ NormalizeCall
    \/ LightingCall
    \/ NormalAtCall
    \/ LocalIntersectCall

(***************************************************************************)
(* The calls of World: color_at, _shade_hit, reflected_color and           *)
(* refracted_color (world.py)                                              *)
(***************************************************************************)
\* World.is_shadowed(pt) for a point of the z axis: a ray from pt towards the
\* light; pt is shadowed when the ray's hit in the world is nearer than the
\* light.
IsShadowed(w, pt) ==
    LET pt_v == w.light - pt
        pt_dist == Abs(pt_v)
        pt_dir == Sign(pt_v)
        h == ComputeHit(IntersectWorld(w.objects, Ray(0, 0, pt, 0, 0, pt_dir)).value)
    IN  h # <<>> /\ h[1].t < pt_dist

\* The Comps a caller hands to _shade_hit, reflected_color and
\* refracted_color: those of the hits of the rays on the World's objects.
HandComps(objs) ==
    {CompsAt(ComputeHit(IntersectWorld(objs, r).value)[1], r) :
        r \in {q \in CameraRays : ComputeHit(IntersectWorld(objs, q).value) # <<>>}}

\* A call in progress: the method, its ray (color_at) or its comps (the
\* others), its remaining, where it stands (at its start, waiting on the
\* color_at it called, or over) and, for color_at, what the call of
\* prepare_computations gave.
Frame(fn, arg, remaining) ==
    [fn |-> fn, arg |-> arg, remaining |-> remaining, pc |-> "call", comps |-> <<>>]

Top == stack[Len(stack)]

\* The bounce budget is used up read as remaining < 0.
BudgetSpentLate(remaining) == remaining < 0

\* `if remaining <= 0: return BLACK` of reflected_color and refracted_color
BudgetSpent(remaining) == remaining <= 0

\* `remaining - 1`, the budget reflected_color and refracted_color hand to
\* color_at
NextBudget(remaining) == remaining - 1

\* The call on top of frames returns the colour col.  Its caller, if it has
\* one, is a reflected_color or a refracted_color that waits on it and
\* returns the colour times material.reflective or material.transparency in
\* its turn.  The first call made stays, over, with its result.
RECURSIVE ReturnColor(_, _)
ReturnColor(frames, col) ==
    IF Len(frames) = 1
    THEN [stack |-> <<[frames[1] EXCEPT !.pc = "done"]>>, result |-> <<Returned(col)>>]
    ELSE LET f == frames[Len(frames) - 1]
             m == f.arg.obj
             scaled == IF f.fn = "reflected_color" THEN col * world.reflective[m]
                       ELSE col * world.transparency[m]
         IN  ReturnColor(SubSeq(frames, 1, Len(frames) - 1), scaled)

\* An exception leaves the call on top of frames: no caller catches it, and
\* the first call made is over with the exception.
RaiseFrom(frames) ==
    [stack |-> <<[frames[1] EXCEPT !.pc = "done"]>>, result |-> <<Raised>>]

WorldIdle ==
    /\ world = [objects |-> GlassWorld,
                reflective |-> [o \in ObjectIds(GlassWorld) |-> 0],
                transparency |-> [o \in ObjectIds(GlassWorld) |-> 0],
                light |-> 0 - 20]
    /\ stack = <<>>
    /\ result = <<>>

\* One call on a World: color_at(r, remaining), or _shade_hit,
\* reflected_color or refracted_color (comps, remaining).
WorldInit ==
    /\ world \in Materials
    /\ \E remaining \in ((0 - 1)..MaxRemaining) \cup {REF_LIMIT} :
           \/ \E r \in CameraRays : stack = <<Frame("color_at", r, remaining)>>
           \/ \E comps \in HandComps(world.objects),
                 fn \in {"_shade_hit", "reflected_color", "refracted_color"} :
                  stack = <<Frame(fn, comps, remaining)>>
    /\ result = <<>>

\* color_at with an intersect_world that takes each object off World.objects
\* as it intersects it.
ColorAtConsumesObjects ==
    /\ stack # <<>>
    /\ Top.fn = "color_at" /\ Top.pc = "call"
    /\ LET hit == ComputeHit(IntersectWorld(world.objects, Top.arg).value)
           comps == PrepareComputations(hit[1], Top.arg, <<>>)
           after == IF hit = <<>> THEN ReturnColor(stack, BLACK)
                    ELSE RaiseFrom([stack EXCEPT ![Len(stack)] =
                                       [Top EXCEPT !.comps = <<comps>>]])
       IN  /\ hit # <<>> => comps.raised
           /\ stack' = after.stack
           /\ result' = after.result
    /\ world' = [world EXCEPT !.objects = <<>>]
    /\ UNCHANGED notWorld

\* color_at(r, remaining): the hit of intersect_world(r); BLACK is returned
\* when there is none.  Otherwise prepare_computations(hit, r) is called,
\* without all_inters; it raises on every hit, and the call of _shade_hit
\* after it is not reached.
ColorAt ==
    /\ stack # <<>>
    /\ Top.fn = "color_at" /\ Top.pc = "call"
    /\ LET hit == ComputeHit(IntersectWorld(world.objects, Top.arg).value)
           comps == PrepareComputations(hit[1], Top.arg, <<>>)
           after == IF hit = <<>> THEN ReturnColor(stack, BLACK)
                    ELSE RaiseFrom([stack EXCEPT ![Len(stack)] =
                                       [Top EXCEPT !.comps = <<comps>>]])
       IN  /\ hit # <<>> => comps.raised
           /\ stack' = after.stack
           /\ result' = after.result
    /\ UNCHANGED world
    /\ UNCHANGED notWorld

\* _shade_hit(comps, remaining): is_shadowed(comps.over_point), then
\* lighting(...) with the keywords material, obj, light, surf_pos, eye_v,
\* normal and in_shadow.  lighting has no parameters obj, eye_v and
\* in_shadow: the call raises TypeError on every comps, and the calls of
\* reflected_color and refracted_color after it are not reached.
ShadeHit ==
    /\ stack # <<>>
    /\ Top.fn = "_shade_hit" /\ Top.pc = "call"
    /\ LET comps == Top.arg
           shadowed == IsShadowed(world, comps.over_point)
           surface == lighting([material |-> [reflective |-> world.reflective[comps.obj],
                                             transparency |-> world.transparency[comps.obj]],
                                obj |-> comps.obj,
                                light |-> world.light, surf_pos |-> comps.point,
                                eye_v |-> comps.eye_v, normal |-> comps.normal,
                                in_shadow |-> shadowed])
           after == RaiseFrom(stack)
       IN  /\ surface.raised
           /\ stack' = after.stack
           /\ result' = after.result
    /\ UNCHANGED world
    /\ UNCHANGED notWorld

\* reflected_color(comps, remaining): BLACK for a material that does not
\* reflect and BLACK when remaining <= 0; otherwise color_at on the reflected
\* ray from over_point, with remaining - 1.
ReflectedColor ==
    /\ stack # <<>>
    /\ Top.fn = "reflected_color" /\ Top.pc = "call"
    /\ LET comps == Top.arg
           after == ReturnColor(stack, BLACK)
       IN  IF world.reflective[comps.obj] = 0 \/ BudgetSpent(Top.remaining)
           THEN /\ stack' = after.stack
                /\ result' = after.result
           ELSE /\ stack' = Append([stack EXCEPT ![Len(stack)] = [Top EXCEPT !.pc = "wait"]],
                                   Frame("color_at",
                                         Ray(0, 0, comps.over_point, 0, 0, comps.reflect_v),
                                         NextBudget(Top.remaining)))
                /\ UNCHANGED result
    /\ UNCHANGED world
    /\ UNCHANGED notWorld

\* refracted_color(comps, remaining): BLACK for an opaque material, BLACK
\* when remaining <= 0 and BLACK under total internal reflection
\* (sin2_t > 1); otherwise color_at on the refracted ray from under_point,
\* with remaining - 1.  n_ratio is n1 / n2: the comparison is the source's
\* with both sides multiplied by n2 squared, n2_cos_t is n2 times the source's
\* cos_t, and the direction is the source's with n2 taken out as a divisor.
RefractedColor ==
    /\ stack # <<>>
    /\ Top.fn = "refracted_color" /\ Top.pc = "call"
    /\ LET comps == Top.arg
           cos_i == comps.eye_v * comps.normal
           tir == comps.n1 * comps.n1 * (1 - cos_i * cos_i) > comps.n2 * comps.n2
           n2_cos_t == ISqrt(comps.n2 * comps.n2 - comps.n1 * comps.n1 * (1 - cos_i * cos_i))
           direction == (comps.normal * (comps.n1 * cos_i - n2_cos_t)
                         - comps.eye_v * comps.n1) \div comps.n2
           after == ReturnColor(stack, BLACK)
       IN  IF world.transparency[comps.obj] = 0 \/ BudgetSpent(Top.remaining) \/ tir
           THEN /\ stack' = after.stack
                /\ result' = after.result
           ELSE /\ stack' = Append([stack EXCEPT ![Len(stack)] = [Top EXCEPT !.pc = "wait"]],
                                   Frame("color_at",
                                         Ray(0, 0, comps.under_point, 0, 0, direction),
                                         NextBudget(Top.remaining)))
                /\ UNCHANGED result
    /\ UNCHANGED world
    /\ UNCHANGED notWorld

WorldNext ==
    \/ ColorAt
    \/ ShadeHit
    \/ ReflectedColor
    \/ RefractedColor

(***************************************************************************)
(* The OBJ parser (obj.py)                                                 *)
(***************************************************************************)
\* A line of an OBJ source: head is its first word, as a sequence of
\* characters (<<>> for an empty line); args are the numbers that follow;
\* normals, for a face written "f 1//1 2//1 3//1", are the numbers after the
\* slashes, and <<>> for a line without a slash.
ObjLine(head, args, normals) == [head |-> head, args |-> args, normals |-> normals]

\* The lines a source is made of: a vertex, a vertex normal, a triangle, a
\* polygon of four vertices, a smooth triangle, a named group, and lines that
\* are none of these: a texture vertex "vt 0 1 0", a comment, an empty line
\* and words that begin with v, f and g.
ObjLines ==
    {ObjLine(<<"v">>, <<1, 0, 0>>, <<>>),
     ObjLine(<<"v", "n">>, <<0, 0, 1>>, <<>>),
     ObjLine(<<"f">>, <<1, 1, 1>>, <<>>),
     ObjLine(<<"f">>, <<1, 1, 1, 1>>, <<>>),
     ObjLine(<<"f">>, <<1, 1, 1>>, <<1, 1, 1>>),
     ObjLine(<<"g">>, <<>>, <<>>),
     ObjLine(<<"v", "t">>, <<0, 1, 0>>, <<>>),
     ObjLine(<<"#">>, <<>>, <<>>),
     ObjLine(<<>>, <<>>, <<>>),
     ObjLine(<<"v", "e">>, <<>>, <<>>),
     ObjLine(<<"f", "o">>, <<>>, <<>>),
     ObjLine(<<"g", "r">>, <<>>, <<>>)}

\* str.startswith
StartsWith(s, prefix) ==
    Len(s) >= Len(prefix) /\ SubSeq(s, 1, Len(prefix)) = prefix

\* list[i] of Python, i counted from 0: a negative i counts from the end,
\* and an i outside the list raises IndexError.
PyIndex(list, i) ==
    IF 0 <= i /\ i < Len(list) THEN Returned(list[i + 1])
    ELSE IF i < 0 /\ 0 - i <= Len(list) THEN Returned(list[Len(list) + i + 1])
    ELSE Raised

\* [list[int(val) - 1] for val in vals]
Lookup(list, vals) ==
    IF \E k \in DOMAIN vals : PyIndex(list, vals[k] - 1).raised THEN Raised
    ELSE Returned([k \in DOMAIN vals |-> PyIndex(list, vals[k] - 1).value])

\* _fan_triangulation(vertices): one Triangle for each window of two over
\* vertices[1:]
FanTriangulation(vertices) ==
    [k \in 1..(IF Len(vertices) >= 3 THEN Len(vertices) - 2 ELSE 0) |->
        [p1 |-> vertices[1], p2 |-> vertices[k + 1], p3 |-> vertices[k + 2]]]

\* _fan_triangulation_smooth(vertices, vertex_normals)
FanTriangulationSmooth(vertices, vertex_normals) ==
    LET n == IF Len(vertices) <= Len(vertex_normals) THEN Len(vertices)
             ELSE Len(vertex_normals)
    IN  [k \in 1..(IF n >= 3 THEN n - 2 ELSE 0) |->
            [p1 |-> vertices[1], p2 |-> vertices[k + 1], p3 |-> vertices[k + 2],
             n1 |-> vertex_normals[1], n2 |-> vertex_normals[k + 1],
             n3 |-> vertex_normals[k + 2]]]

\* The members of a Group's children: the k-th triangle of all_triangles,
\* the k-th group of groups.
TriangleRef(k) == [kind |-> "Triangle", id |-> k]
GroupRef(k) == [kind |-> "Group", id |-> k]

\* parse_obj_src(src) before its loop: groups = [Group()], the default
\* group, whose parent is None (0).
ParserStart(src) ==
    [src |-> src, pos |-> 1, status |-> "loop",
     all_vertices |-> <<>>, all_triangles |-> <<>>, all_vertex_normals |-> <<>>,
     groups |-> <<1>>, children |-> <<{}>>, group_parent |-> <<0>>,
     triangle_parent |-> <<>>]

\* The triangles added to the first group a g line declared (the default
\* group when there is none), whatever group was declared last.
AddTrianglesToFirstNamed(p, triangles) ==
    LET first == Len(p.all_triangles)
        first_named == IF Len(p.groups) >= 2 THEN p.groups[2] ELSE p.groups[1]
    IN  [p EXCEPT !.all_triangles = @ \o triangles,
                  !.children[first_named] = @ \cup {TriangleRef(first + k) : k \in DOMAIN triangles},
                  !.triangle_parent = @ \o [k \in DOMAIN triangles |-> first_named]]

\* all_triangles.extend(triangles) and groups[-1].add_child(t) for each
\* of them.
AddTriangles(p, triangles) ==
    LET first == Len(p.all_triangles)
        last_group == p.groups[Len(p.groups)]
    IN  [p EXCEPT !.all_triangles = @ \o triangles,
                  !.children[last_group] = @ \cup {TriangleRef(first + k) : k \in DOMAIN triangles},
                  !.triangle_parent = @ \o [k \in DOMAIN triangles |-> last_group]]

\* One pass of `for line in src.splitlines()` on the line at pos.
ParseLineStep(p) ==
    LET line == p.src[p.pos]
        next == [p EXCEPT !.pos = @ + 1]
        failed == [p EXCEPT !.status = "raised"]
    IN  IF line.head = <<>> \/ line.head[1] \notin {"v", "f", "g"} THEN next
        ELSE IF StartsWith(line.head, <<"v", "n">>)
        THEN IF Len(line.args) # 3 THEN failed
             ELSE [next EXCEPT !.all_vertex_normals = Append(@, line.args)]
        ELSE IF StartsWith(line.head, <<"v">>)
        THEN IF Len(line.args) # 3 THEN failed
             ELSE [next EXCEPT !.all_vertices = Append(@, line.args)]
        ELSE IF StartsWith(line.head, <<"f">>)
        THEN IF line.normals # <<>>
             THEN LET vertices == Lookup(p.all_vertices, line.args)
                      normals == Lookup(p.all_vertex_normals, line.normals)
                  IN  IF vertices.raised \/ normals.raised THEN failed
                      ELSE AddTriangles(next, FanTriangulationSmooth(vertices.value,
                                                                     normals.value))
             ELSE LET vertices == Lookup(p.all_vertices, line.args)
                  IN  IF vertices.raised THEN failed
                      ELSE AddTriangles(next, FanTriangulation(vertices.value))
        ELSE LET new_group == Len(p.groups) + 1
             IN  [next EXCEPT !.groups = Append(@, new_group),
                              !.children = Append([@ EXCEPT ![1] = @ \cup {GroupRef(new_group)}],
                                                  {}),
                              !.group_parent = Append(@, 1)]

ParserIdle == parser = [status |-> "idle"]

\* parse_obj_src(src) is called on a source of at most MaxLines lines.
ParserInit == parser \in {ParserStart(src) : src \in SeqsUpTo(ObjLines, MaxLines)}

ParseLine ==
    /\ parser.status = "loop"
    /\ parser.pos <= Len(parser.src)
    /\ parser' = ParseLineStep(parser)
    /\ UNCHANGED notParser

\* return all_vertices, all_triangles, groups, all_vertex_normals
ParseReturn ==
    /\ parser.status = "loop"
    /\ parser.pos > Len(parser.src)
    /\ parser' = [parser EXCEPT !.status = "returned"]
    /\ UNCHANGED notParser

ParserNext ==
    \/ ParseLine
    \/ ParseReturn

(***************************************************************************)
(* The Canvas, its PPM output and Camera.render (canvas.py, camera.py)     *)
(***************************************************************************)
\* maxval of _pixels_to_ppm
MaxVal == 255

Sides == 1..MaxSide

\* Color components are carried in halves: 2 is 1.0, 3 is 1.5, -1 is -0.5.
\* Canvas(width, height): _pixels = np.zeros((width, height, 3)), indexed
\* [x, y]; writes is the list of the write_pixel calls served.
NewCanvas(width, height) ==
    [width |-> width, height |-> height,
     pixels |-> [xy \in (0..(width - 1)) \X (0..(height - 1)) |-> <<0, 0, 0>>],
     writes |-> <<>>]

\* An index into an axis of n entries of a numpy array: a negative index
\* counts from the end, an index outside the axis raises IndexError.
NpIndex(i, n) ==
    IF 0 <= i /\ i < n THEN Returned(i)
    ELSE IF i < 0 /\ 0 - i <= n THEN Returned(n + i)
    ELSE Raised

\* Canvas.write_pixel(x, y, color): ValueError for a Rayple that is no
\* Color; otherwise _pixels[x, y, :] = color.
WritePixel(cv, x, y, color) ==
    LET ix == NpIndex(x, cv.width)
        iy == NpIndex(y, cv.height)
        failed == color.w # COLOR \/ ix.raised \/ iy.raised
        served == [x |-> x, y |-> y, color |-> color, raised |-> failed]
    IN  IF failed THEN [cv EXCEPT !.writes = Append(@, served)]
        ELSE [cv EXCEPT !.pixels[<<ix.value, iy.value>>] = <<color.x, color.y, color.z>>,
                        !.writes = Append(@, served)]

\* int(v * maxval) for a component v in halves, rounded toward zero, then
\* clamped to 0..maxval
ScaleAndClamp(v) ==
    LET n == v * MaxVal
        scaled == IF n >= 0 THEN n \div 2 ELSE 0 - ((0 - n) \div 2)
    IN  IF scaled > MaxVal THEN MaxVal ELSE IF scaled < 0 THEN 0 ELSE scaled

\* _pixels_to_ppm(pixels), as the values of its text in the order they are
\* written in: the (width, height, 3) array is reshaped to height rows, which
\* keeps the order of its elements in memory, x slowest, then y, then the
\* channel; joining and wrapping the rows changes only the white space
\* between the values.
PixelsToPpm(cv) ==
    [i \in 1..(cv.width * cv.height * 3) |->
        LET channel == (i - 1) % 3
            q == (i - 1) \div 3
            x == q \div cv.height
            y == q % cv.height
        IN  ScaleAndClamp(cv.pixels[<<x, y>>][channel + 1])]

\* product(range(v_size - 1), range(h_size - 1)) as the list of its (y, x)
RenderPixels(h_size, v_size) ==
    [k \in 1..((v_size - 1) * (h_size - 1)) |->
        <<(k - 1) \div (h_size - 1), (k - 1) % (h_size - 1)>>]

\* world.color_at(self.ray_for_pixel(x, y)).  Of the world, hits is the set of
\* the pixels (x, y) whose ray has a hit: color_at returns color(0, 0, 0)
\* for a ray without a hit and raises for a ray with one (prepare_computations
\* calls ray.direction.reflect, which Rayple does not have).
ColorAtPixel(hits, x, y) ==
    IF <<x, y>> \in hits THEN Raised ELSE Returned(Rayple(0, 0, 0, COLOR))

\* The worlds handed to render, each as the set of the pixels whose ray has a
\* hit: a World without objects, a world with one small object in front of
\* one pixel, a world that fills the view.
HitSets(h_size, v_size) ==
    LET all == (0..(h_size - 1)) \X (0..(v_size - 1))
    IN  {{}} \cup {{p} : p \in all} \cup {all}

\* The Rayples a caller passes to write_pixel.
WriteColors == {Rayple(2, 0, 0, COLOR), Rayple(3, 1, 0 - 1, COLOR), Rayple(1, 1, 1, POINT)}

CanvasIdle ==
    /\ canvas = [width |-> 0]
    /\ cam = [status |-> "idle"]
    /\ ppm = <<>>

\* Either a Canvas(width, height) in the hands of a caller, or
\* Camera(h_size, v_size, fov).render(world) up to its loop, with
\* img = Canvas(h_size, v_size).
CanvasInit ==
    /\ \E w \in Sides, h \in Sides :
           /\ canvas = NewCanvas(w, h)
           /\ \/ cam = [status |-> "canvas"]
              \/ \E hits \in HitSets(w, h) :
                     cam = [status |-> "render", h_size |-> w, v_size |-> h,
                            hits |-> hits, todo |-> RenderPixels(w, h)]
    /\ ppm = <<>>

\* canvas.write_pixel(x, y, color) by a caller
WritePixelCall ==
    /\ cam.status = "canvas"
    /\ canvas.writes = <<>>
    /\ ppm = <<>>
    /\ \E x \in (0 - 1)..canvas.width, y \in (0 - 1)..canvas.height, color \in WriteColors :
           canvas' = WritePixel(canvas, x, y, color)
    /\ UNCHANGED <<cam, ppm>>
    /\ UNCHANGED notCanvas

\* one pass of the loop of Camera.render; an exception of color_at leaves
\* the loop and render, the pixels of the later passes stay unwritten
RenderPixel ==
    /\ cam.status = "render"
    /\ cam.todo # <<>>
    /\ LET y == cam.todo[1][1]
           x == cam.todo[1][2]
           color == ColorAtPixel(cam.hits, x, y)
       IN  IF color.raised
           THEN /\ cam' = [cam EXCEPT !.status = "raised"]
                /\ UNCHANGED canvas
           ELSE /\ canvas' = WritePixel(canvas, x, y, color.value)
                /\ cam' = [cam EXCEPT !.todo = Tail(@)]
    /\ UNCHANGED ppm
    /\ UNCHANGED notCanvas

\* Camera.render: return img
RenderReturn ==
    /\ cam.status = "render"
    /\ cam.todo = <<>>
    /\ cam' = [cam EXCEPT !.status = "returned"]
    /\ UNCHANGED <<canvas, ppm>>
    /\ UNCHANGED notCanvas

\* _pixels_to_ppm(canvas._pixels), as Canvas.to_ppm calls it
ToPpm ==
    /\ cam.status \in {"canvas", "returned"}
    /\ ppm = <<>>
    /\ ppm' = <<PixelsToPpm(canvas)>>
    /\ UNCHANGED <<canvas, cam>>
    /\ UNCHANGED notCanvas

CanvasNext ==
    \/ WritePixelCall
    \/ RenderPixel
    \/ RenderReturn
    \/ ToPpm

(***************************************************************************)
(* Specifications                                                          *)
(***************************************************************************)
\* The Intersections object under its constructor and methods.
InitInter == InterInit /\ SceneIdle /\ FilterIdle /\ IncludesIdle /\ RefrIdle /\ WorldIdle /\ GraphIdle /\ CallIdle /\ ParserIdle /\ CanvasIdle

SpecInter == InitInter /\ [][InterNext]_vars

\* A CSG and calls of its _filter_intersections.
InitCSG == InterIdle /\ FilterInit /\ IncludesIdle /\ RefrIdle /\ WorldIdle /\ GraphIdle /\ CallIdle /\ ParserIdle /\ CanvasIdle

SpecCSG == InitCSG /\ [][FilterNext]_vars

\* check_includes on the shapes of a scene.
InitIncludes == InterIdle /\ FilterInit /\ IncludesInit /\ RefrIdle /\ WorldIdle /\ GraphIdle /\ CallIdle /\ ParserIdle /\ CanvasIdle

SpecIncludes == InitIncludes /\ [][IncludesNext]_vars

\* _calc_refractive_indices on hand-built sequences.
InitRefr == InterIdle /\ SceneIdle /\ FilterIdle /\ IncludesIdle /\ RefrInit /\ WorldIdle /\ GraphIdle /\ CallIdle /\ ParserIdle /\ CanvasIdle

SpecRefr == InitRefr /\ [][RefrNext]_vars

\* One color_at call on the world of two glass spheres, with the calls it
\* makes.
InitWorld ==
    InterIdle /\ SceneIdle /\ FilterIdle /\ IncludesIdle /\ RefrIdle /\ WorldInit /\ GraphIdle /\ CallIdle /\ ParserIdle /\ CanvasIdle

SpecWorld == InitWorld /\ [][WorldNext]_vars

\* A scene graph under construction, and intersect calls on its Groups.
InitGraph ==
    InterIdle /\ SceneIdle /\ FilterIdle /\ IncludesIdle /\ RefrIdle /\ WorldIdle /\ GraphIdle /\ CallIdle /\ ParserIdle /\ CanvasIdle

SpecGraph == InitGraph /\ [][GraphNext]_vars

\* One call of a Rayple operator, of lighting or of Shape.normal_at.
InitCalls ==
    InterIdle /\ SceneIdle /\ FilterIdle /\ IncludesIdle /\ RefrIdle /\ WorldIdle /\ GraphIdle /\ CallInit /\ ParserIdle /\ CanvasIdle

SpecCalls == InitCalls /\ [][CallsNext]_vars

\* One parse_obj_src call.
InitParser ==
    InterIdle /\ SceneIdle /\ FilterIdle /\ IncludesIdle /\ RefrIdle /\ WorldIdle /\ GraphIdle /\ CallIdle /\ ParserInit /\ CanvasIdle

SpecParser == InitParser /\ [][ParserNext]_vars

\* A Canvas written by a caller or by Camera.render, and its PPM output.
InitCanvas ==
    InterIdle /\ SceneIdle /\ FilterIdle /\ IncludesIdle /\ RefrIdle /\ WorldIdle /\ GraphIdle /\ CallIdle /\ ParserIdle /\ CanvasInit

SpecCanvas == InitCanvas /\ [][CanvasNext]_vars

(***************************************************************************)
(* Claims about the CSG filter, checked under SpecCSG                      *)
(***************************************************************************)
\* C3: for each of the 24 combinations of (operation, left_hit, in_left,
\* in_right), _is_inter_allowed returns: Union -> (left_hit and not in_right)
\* or (not left_hit and not in_left); Intersection -> (left_hit and in_right)
\* or (not left_hit and in_left); Difference -> (left_hit and not in_right)
\* or (not left_hit and in_left).
C3_TruthTable ==
    step # NoStep =>
        LET s == step[1]
        IN  /\ operation = "UNION" =>
                 (s.allowed <=> ((s.left_hit /\ ~s.in_right) \/ (~s.left_hit /\ ~s.in_left)))
            /\ operation = "INTERSECTION" =>
                 (s.allowed <=> ((s.left_hit /\ s.in_right) \/ (~s.left_hit /\ s.in_left)))
            /\ operation = "DIFFERENCE" =>
                 (s.allowed <=> ((s.left_hit /\ ~s.in_right) \/ (~s.left_hit /\ s.in_left)))

\* A Difference meets a right hit while inside both operands, and keeps it.
C3_Witness ==
    /\ step # NoStep
    /\ operation = "DIFFERENCE"
    /\ ~step[1].left_hit /\ step[1].in_left /\ step[1].in_right
    /\ step[1].allowed

\* The side an intersection belongs to: left when its object is in the
\* subtree of the left operand.
BelongsToLeft(inter) == inter.obj \in LeavesUnder(scene.left, scene)

CountLeft(k) == Cardinality({j \in 1..(k - 1) : BelongsToLeft(inters[j])})
CountRight(k) == Cardinality({j \in 1..(k - 1) : ~BelongsToLeft(inters[j])})

\* Whether the intersection at position k is admitted by the truth table, on
\* the flags as the crossings before k leave them.
Admitted(k) ==
    LET lh == BelongsToLeft(inters[k])
        il == CountLeft(k) % 2 = 1
        ir == CountRight(k) % 2 = 1
    IN  \/ operation = "UNION" /\ ((lh /\ ~ir) \/ (~lh /\ ~il))
        \/ operation = "INTERSECTION" /\ ((lh /\ ir) \/ (~lh /\ il))
        \/ operation = "DIFFERENCE" /\ ((lh /\ ~ir) \/ (~lh /\ il))

RECURSIVE AdmittedUpTo(_)
AdmittedUpTo(k) ==
    IF k = 0 THEN <<>>
    ELSE IF Admitted(k) THEN Append(AdmittedUpTo(k - 1), inters[k])
    ELSE AdmittedUpTo(k - 1)

\* C4: the filter's output is exactly the intersections admitted by the truth
\* table, in input order, where each intersection is judged on the flags as
\* they are before it and then toggles the flag of the side it belongs to,
\* both flags starting false.
C4_FilterIsAdmittedSubsequence ==
    fpc = "done" => filtered = AdmittedUpTo(Len(inters))

FlatLR == scene.left = 1 /\ scene.right = 2

ObjsOf(s) == [i \in 1..Len(s) |-> s[i].obj]

\* C6: for left shape L and right shape R and the input [L, R, L, R] at
\* t = 1, 2, 3, 4, the filter keeps exactly two intersections: Union keeps
\* positions 0 and 3, Intersection positions 1 and 2, Difference positions 0
\* and 1.
C6_FilterLRLR ==
    (fpc = "done" /\ FlatLR /\ ObjsOf(inters) = <<1, 2, 1, 2>>) =>
        /\ Len(filtered) = 2
        /\ operation = "UNION" => filtered = <<inters[1], inters[4]>>
        /\ operation = "INTERSECTION" => filtered = <<inters[2], inters[3]>>
        /\ operation = "DIFFERENCE" => filtered = <<inters[1], inters[2]>>

C6_Witness ==
    /\ fpc = "done" /\ FlatLR /\ ObjsOf(inters) = <<1, 2, 1, 2>>
    /\ operation = "INTERSECTION"
    /\ filtered = <<Intersection(2, 2), Intersection(3, 1)>>

Alternating(s) == ObjsOf(s) \in {<<1, 2, 1, 2>>, <<2, 1, 2, 1>>}

\* C7, as stated: for Union(sphere, cube), filtering a sorted sequence of 4
\* intersections that alternate left/right leaves exactly 3 of them.
C7_UnionKeepsThree ==
    (fpc = "done" /\ FlatLR /\ operation = "UNION" /\ Alternating(inters)) =>
        Len(filtered) = 3

\* C7, amended: for Union(sphere, cube), filtering a sorted sequence of 4
\* intersections that alternate left/right leaves exactly 2 of them, the
\* first and the last.
C7_UnionKeepsTwo ==
    (fpc = "done" /\ FlatLR /\ operation = "UNION" /\ Alternating(inters)) =>
        filtered = <<inters[1], inters[4]>>

C7_Witness ==
    /\ fpc = "done" /\ FlatLR /\ operation = "UNION"
    /\ ObjsOf(inters) = <<2, 1, 2, 1>>
    /\ Len(filtered) = 2

(***************************************************************************)
(* Claims about check_includes, checked under SpecIncludes                 *)
(***************************************************************************)
RECURSIVE Descendants(_, _)
Descendants(n, sc) ==
    sc.kids[n] \cup UNION {Descendants(k, sc) : k \in sc.kids[n]}

\* C5: check_includes(a, b) is true exactly when b is a itself, a being no
\* group, or b is a descendant of a at any depth, in whatever order the
\* children are visited.
C5_CheckIncludesIsMembership ==
    ciRet # <<>> =>
        (ciRet[1] <=> IF ciA \in scene.groups THEN ciB \in Descendants(ciA, scene)
                      ELSE ciA = ciB)

(***************************************************************************)
(* Claims about the refractive-index walk, checked under SpecRefr          *)
(***************************************************************************)
\* The target of a walk: the first intersection of the sequence equal to
\* the one asked for.
TargetPos == CHOOSE p \in 1..Len(all_inters) :
                /\ all_inters[p] = target
                /\ \A q \in 1..(p - 1) : all_inters[q] # target

Occurrences(obj, k) == {j \in 1..k : all_inters[j].obj = obj}

\* The objects entered and not yet left after the first k intersections:
\* those met an odd number of times.
Open(k) == {o \in Glass : Cardinality(Occurrences(o, k)) % 2 = 1}

LastOf(obj, k) == CHOOSE j \in Occurrences(obj, k) : \A i \in Occurrences(obj, k) : i <= j

\* The index of the most recently entered of the open objects, 1 if none.
IndexAfter(k) ==
    IF Open(k) = {} THEN Vacuum
    ELSE RefractiveIndex(CHOOSE o \in Open(k) :
                            \A q \in Open(k) : LastOf(q, k) <= LastOf(o, k))

ScenarioPairs == <<<<10, 15>>, <<15, 20>>, <<20, 25>>, <<25, 25>>, <<25, 15>>, <<15, 10>>>>

\* C8: the walk toggles each intersection's object in sequence order from an
\* empty container list (removed if present, appended otherwise) and stops at
\* the target: n1 is the index of the last container before the target's
\* toggle and n2 the index of the last container after it, 1 when there is
\* none.  For A(1.5) containing B(2.0) and C(2.5) and the sequence
\* [A, B, C, B, C, A] the pairs by position are (1.0,1.5), (1.5,2.0),
\* (2.0,2.5), (2.5,2.5), (2.5,1.5), (1.5,1.0).
C8_RefractiveWalk ==
    (n1n2 # <<>> /\ InList(all_inters, target)) =>
        /\ ~n1n2[1].raised
        /\ n1n2[1].value = <<IndexAfter(TargetPos - 1), IndexAfter(TargetPos)>>
        /\ all_inters = RefractionScenario => n1n2[1].value = ScenarioPairs[TargetPos]

\* The second crossing of B in the scenario: C is the last container before
\* and after it.
C8_Witness ==
    /\ n1n2 # <<>>
    /\ all_inters = RefractionScenario
    /\ target = RefractionScenario[4]
    /\ n1n2[1] = Returned(<<25, 25>>)

(***************************************************************************)
(* Claims about World.color_at, checked under SpecWorld                    *)
(***************************************************************************)
\* The (n1, n2) of the container walk over all of a ray's intersections
\* with the world, taken at the ray's hit.
FullWalk(r) ==
    LET xs == IntersectWorld(world.objects, r).value
    IN  CalcRefractiveIndices(ComputeHit(xs)[1], xs).value

\* C9: the shading context color_at builds for its hit has the n1 and n2 of
\* the container walk over the full sorted sequence intersect_world
\* returned: a hit on a glass sphere inside another glass sphere has the
\* outer sphere's index as n1.
C9_CompsFromFullSequence ==
    \A k \in 1..Len(stack) :
        (stack[k].fn = "color_at" /\ stack[k].comps # <<>>) =>
            /\ ~stack[k].comps[1].raised
            /\ <<stack[k].comps[1].value.n1, stack[k].comps[1].value.n2>>
                   = FullWalk(stack[k].arg)

\* C10: reflected_color and refracted_color return black whenever
\* remaining <= 0, for every material, without a further color_at call: a
\* call with such a budget never waits on a color_at, and what it returns is
\* black.  A color_at called by either carries the caller's remaining less
\* one.
C10_BudgetForcesBlack ==
    /\ \A k \in 1..Len(stack) :
           (stack[k].fn \in {"reflected_color", "refracted_color"}
                /\ stack[k].remaining <= 0) =>
               /\ stack[k].pc # "wait"
               /\ k = Len(stack)
               /\ stack[k].pc = "done" => result = <<Returned(BLACK)>>
    /\ \A k \in 2..Len(stack) :
           /\ stack[k].fn = "color_at"
           /\ stack[k - 1].fn \in {"reflected_color", "refracted_color"}
           /\ stack[k - 1].pc = "wait"
           /\ stack[k].remaining = stack[k - 1].remaining - 1

\* reflected_color was called on a mirror with the budget used up, and has
\* returned black.
C10_Witness ==
    /\ Len(stack) = 1
    /\ Top.fn = "reflected_color"
    /\ Top.remaining = 0
    /\ Top.pc = "done"
    /\ world.reflective[Top.arg.obj] = 1
    /\ result = <<Returned(BLACK)>>

\* The greatest number of color_at calls in progress at once under a budget.
MaxDepth(remaining) == (IF remaining > 0 THEN remaining ELSE 0) + 1

\* C11: for every world and every integer remaining, color_at(ray, remaining)
\* comes to an end and returns a colour, and the nesting depth of color_at
\* calls never exceeds max(remaining, 0) + 1; so does a ray bouncing between
\* two parallel planes with reflective = 1 under the default budget.
C11_TerminatesWithinDepth ==
    (stack # <<>> /\ stack[1].fn = "color_at") =>
        /\ Len(stack) <= MaxDepth(stack[1].remaining)
        /\ stack[1].pc = "done" =>
               /\ result # <<>>
               /\ ~result[1].raised
               /\ result[1].value \in Nat

(***************************************************************************)
(* Claims about the scene graph, checked under SpecGraph                   *)
(***************************************************************************)
\* The intersections of the primitives among kids with r, one after the
\* other.
RECURSIVE ConcatInters(_, _)
ConcatInters(kids, r) ==
    IF kids = {} THEN <<>>
    ELSE LET k == CHOOSE x \in kids : TRUE
         IN  ShapeIntersect(PrimShape(k), r).value \o ConcatInters(kids \ {k}, r)

\* C12: intersecting a Group returns an Intersections holding every
\* intersection of every child, sorted ascending by t; a group with no
\* children returns an empty Intersections.  Stated for the groups whose
\* children are primitives.
C12_GroupIntersectsChildren ==
    (gop.name = "intersect" /\ children[gop.on] \subseteq Prims) =>
        gret = <<PySome(SortByT(ConcatInters(children[gop.on], gop.r)))>>

\* C13: every shape is in the children set of at most one Group or CSG, and
\* that one is its parent.
C13_OneParent ==
    \A g \in GroupIds \cup CsgIds : \A s \in children[g] : parent[s] = g

\* C14: a CSG that was constructed has exactly two children, its left_shape
\* and its right_shape, each with the CSG as its parent.
C14_CSGOwnsTwo ==
    \A c \in built :
        /\ Cardinality(children[c]) = 2
        /\ children[c] = {left_shape[c], right_shape[c]}
        /\ parent[left_shape[c]] = c
        /\ parent[right_shape[c]] = c

(***************************************************************************)
(* Claims about lighting, normal_at and Rayple arithmetic, checked under   *)
(* SpecCalls                                                               *)
(***************************************************************************)
\* C15: a lighting call with in_shadow = true, made with the keywords
\* World._shade_hit passes, returns the ambient term alone, effective_color
\* times material.ambient, whatever the light position, eye vector and
\* normal.
C15_ShadowGivesAmbient ==
    (/\ call.fn = "lighting"
     /\ outcome # <<>>
     /\ "in_shadow" \in DOMAIN call.args
     /\ call.args.in_shadow)
        => LET kw == call.args
               effective_color == RaypleMulColor(kw.material.color, kw.light.intensity).value
           IN  outcome[1] = Returned(RaypleScale(effective_color, kw.material.ambient))

\* C16: normal_at of a shape nested in groups takes the query point to
\* object space through the inverse transform of every ancestor, outermost
\* first, and then the shape's own, and takes the local normal back through
\* the inverse transpose of the shape's transform and then of each
\* ancestor's, normalising on the way; so for a query point that is not the
\* sphere's centre it returns that vector.
C16_NormalThroughAncestors ==
    (/\ call.fn = "normal_at"
     /\ outcome # <<>>
     /\ call.args[2].w = POINT)
        => LET RECURSIVE world_to_object(_, _, _)
               world_to_object(transform, parents, p) ==
                   InvPoint(transform,
                            IF parents = <<>> THEN p
                            ELSE world_to_object(parents[1], Tail(parents), p))
               RECURSIVE normal_to_world(_, _, _)
               normal_to_world(transform, parents, n) ==
                   LET m == Sign(InvTransposeVector(transform, n))
                   IN  IF parents = <<>> THEN m
                       ELSE normal_to_world(parents[1], Tail(parents), m)
               shape == call.args[1]
               local_point == world_to_object(shape.transform, shape.parents, call.args[2].z)
               normal == normal_to_world(shape.transform, shape.parents,
                                         SphereLocalNormalAt(local_point))
           IN  normal # 0 => outcome[1] = Returned(Rayple(0, 0, normal, VECTOR))

\* C17: the kind of a sum or difference of two Rayples follows the table:
\* point + vector (either way round) is a point, vector +/- vector a vector,
\* point - point a vector, point - vector a point, color +/- color a color;
\* point + point, vector - point and every mix of a Color with a non-Color,
\* in either order, is rejected with an error.
C17_KindTable ==
    (call.fn \in {"__add__", "__sub__"} /\ outcome # <<>>)
        => LET a == call.args[1].w
               b == call.args[2].w
               add == call.fn = "__add__"
               rejected == \/ (a = COLOR) # (b = COLOR)
                           \/ add /\ a = POINT /\ b = POINT
                           \/ ~add /\ a = VECTOR /\ b = POINT
               kind == IF a = COLOR THEN COLOR
                       ELSE IF add THEN (IF a = VECTOR /\ b = VECTOR THEN VECTOR ELSE POINT)
                       ELSE IF a = b THEN VECTOR ELSE POINT
           IN  IF rejected THEN outcome[1].raised
               ELSE ~outcome[1].raised /\ outcome[1].value.w = kind

\* C18: normalize is rejected with an error on a Point, on a Color and on
\* the zero vector; on any other vector it returns a vector.  Stated for
\* every number the components are given as.
C18_NormalizeOnlyNonZeroVectors ==
    (call.fn = "normalize" /\ outcome # <<>>)
        => LET v == call.args[1]
           IN  IF v.w # VECTOR \/ (v.x = 0 /\ v.y = 0 /\ v.z = 0)
               THEN outcome[1].raised
               ELSE ~outcome[1].raised /\ outcome[1].value.w = VECTOR

(***************************************************************************)
(* Frame of a render, checked under SpecWorld                              *)
(***************************************************************************)
\* C19: no step of color_at, of reflected_color and refracted_color and of
\* the calls they make (intersect_world, is_shadowed and the shapes'
\* intersect and normal_at within them) changes the scene: the World's objects and their
\* materials, and every shape's parent and children, are after the step
\* what they were before it.
C19_RenderLeavesScene ==
    [][/\ world' = world
       /\ children' = children
       /\ parent' = parent
       /\ left_shape' = left_shape
       /\ right_shape' = right_shape]_vars

\* C19: reflected_color on a mirror has called color_at with the reflected
\* ray, which found no hit, and has returned, on the scene it was called on.
C19_Witness ==
    /\ Len(stack) = 1
    /\ Top.fn = "reflected_color"
    /\ Top.pc = "done"
    /\ Top.remaining > 0
    /\ world.reflective[Top.arg.obj] = 1
    /\ result = <<Returned(BLACK)>>
    /\ world \in Materials

(***************************************************************************)
(* Determinism of the CSG filter, checked under SpecCSG                    *)
(***************************************************************************)
\* C20: for a fixed scene graph, operation and sequence of intersections,
\* _filter_intersections returns the same result whatever the order in
\* which the children sets of the Groups and CSGs iterate: the result of
\* the run that has just returned is the result of the run on the same tree
\* under every other iteration order.
C20_SameResultInEveryOrder ==
    fpc = "done"
        => \A other \in Scenes :
               (/\ other.kids = scene.kids
                /\ other.groups = scene.groups
                /\ other.left = scene.left
                /\ other.right = scene.right)
                   => FilterIntersections(operation, other, inters) = filtered

(***************************************************************************)
(* Claims about parse_obj_src, checked under SpecParser                    *)
(***************************************************************************)
\* C21: a line whose command is not f, g, v or vn (a texture vertex
\* "vt ...", a comment, an empty line, a word that merely begins with v, f
\* or g) is discarded: the pass over it raises nothing and leaves the
\* vertices, the vertex normals, the triangles and the groups as they were.
C21_OtherLinesDiscarded ==
    [][(/\ parser.status = "loop"
        /\ parser.pos <= Len(parser.src)
        /\ parser.src[parser.pos].head \notin {<<"f">>, <<"g">>, <<"v">>, <<"v", "n">>})
           => /\ parser'.status = "loop"
              /\ parser'.all_vertices = parser.all_vertices
              /\ parser'.all_vertex_normals = parser.all_vertex_normals
              /\ parser'.all_triangles = parser.all_triangles
              /\ parser'.groups = parser.groups]_vars

\* C22: groups[0] is the default group; a g line appends one new group,
\* which becomes a child of groups[0] with groups[0] as its parent; the
\* triangles an f line makes are added, with their parent set, to the group
\* declared last before the line (the default group when there was none)
\* and to no other group; and no other line changes the groups.
C22_TrianglesGoToLastGroup ==
    [][(parser.status = "loop" /\ parser.pos <= Len(parser.src) /\ parser'.status = "loop")
           => LET line == parser.src[parser.pos]
                  n == Len(parser.groups)
                  made == (Len(parser.all_triangles) + 1)..Len(parser'.all_triangles)
              IN  /\ parser'.groups[1] = 1
                  /\ parser'.group_parent[1] = 0
                  /\ line.head = <<"g">>
                        => /\ parser'.groups = Append(parser.groups, n + 1)
                           /\ GroupRef(n + 1) \in parser'.children[1]
                           /\ parser'.group_parent[n + 1] = 1
                           /\ parser'.children[n + 1] = {}
                  /\ line.head = <<"f">>
                        => /\ parser'.groups = parser.groups
                           /\ \A k \in made :
                                  /\ parser'.triangle_parent[k] = parser.groups[n]
                                  /\ \A g \in 1..n :
                                         TriangleRef(k) \in parser'.children[g] <=> g = parser.groups[n]
                  /\ \A k \in 1..Len(parser.all_triangles) :
                         /\ parser'.triangle_parent[k] = parser.triangle_parent[k]
                         /\ \A g \in 1..n :
                                TriangleRef(k) \in parser'.children[g]
                                    <=> TriangleRef(k) \in parser.children[g]]_vars

\* C22: a source with a vertex, two g lines and then a face has been
\* parsed: the triangle is a child of the group declared last, and of
\* neither the group declared first nor the default group.
C22_Witness ==
    /\ parser.status = "returned"
    /\ Len(parser.groups) = 3
    /\ Len(parser.all_triangles) >= 1
    /\ parser.triangle_parent[1] = 3
    /\ TriangleRef(1) \in parser.children[3]
    /\ parser.children[2] = {}
    /\ parser.children[1] = {GroupRef(2), GroupRef(3)}

(***************************************************************************)
(* Claims about Camera.render and the PPM output, checked under SpecCanvas *)
(***************************************************************************)
\* C23: when Camera.render returns, every pixel (x, y) with 0 <= x < h_size
\* and 0 <= y < v_size, those of the last row and the last column included,
\* has been written with the color color_at returned for its ray.
C23_RenderWritesEveryPixel ==
    cam.status = "returned"
        => \A x \in 0..(cam.h_size - 1), y \in 0..(cam.v_size - 1) :
               /\ \E k \in DOMAIN canvas.writes :
                      canvas.writes[k].x = x /\ canvas.writes[k].y = y
               /\ LET color == ColorAtPixel(cam.hits, x, y)
                  IN  /\ ~color.raised
                      /\ canvas.pixels[<<x, y>>]
                             = <<color.value.x, color.value.y, color.value.z>>

\* C30: after write_pixel(x, y, c) with 0 <= x < W and 0 <= y < H on a new
\* Canvas of width W and height H, the PPM pixel data holds, as the pixel of
\* index y * W + x, the channels of c scaled by maxval and clamped to
\* 0..maxval.
C30_PpmIsRowMajor ==
    (/\ cam.status = "canvas"
     /\ ppm # <<>>
     /\ canvas.writes # <<>>
     /\ ~canvas.writes[1].raised
     /\ canvas.writes[1].x \in 0..(canvas.width - 1)
     /\ canvas.writes[1].y \in 0..(canvas.height - 1))
        => LET w == canvas.writes[1]
               at == 3 * (w.y * canvas.width + w.x)
           IN  /\ ppm[1][at + 1] = ScaleAndClamp(w.color.x)
               /\ ppm[1][at + 2] = ScaleAndClamp(w.color.y)
               /\ ppm[1][at + 3] = ScaleAndClamp(w.color.z)

(***************************************************************************)
(* Cylinder and Cone intersections, checked under SpecCalls                *)
(***************************************************************************)
\* The call made was shape._local_intersect(ray) and it has returned or raised.
LocalIntersectDone == call.fn = "_local_intersect" /\ outcome # <<>>

\* C24: on an open (uncapped) cone, when a is 0: if b is not 0 the result is
\* the single root -c / (2b); if b is 0 too the ray misses, the result is
\* empty and nothing is raised.
C24_ParallelRayOnCone ==
    (LocalIntersectDone /\ call.args[1].kind = "Cone" /\ ~call.args[1].closed) =>
        LET cone == call.args[1]
            r == call.args[2]
            a == r.dx * r.dx - r.dy * r.dy + r.dz * r.dz
            b == 2 * r.ox * r.dx - 2 * r.oy * r.dy + 2 * r.oz * r.dz
            c == r.ox * r.ox - r.oy * r.oy + r.oz * r.oz
        IN  a = 0 =>
                /\ ~outcome[1].raised
                /\ outcome[1].value =
                       IF b # 0 THEN <<Intersection((0 - c) \div (2 * b), cone.id)>>
                       ELSE <<>>

\* C25: every side intersection of a truncated cylinder or cone lies at a y
\* strictly between minimum and maximum.  On an uncapped shape every
\* intersection is a side intersection.
C25_SideHitsWithinBounds ==
    (LocalIntersectDone /\ ~call.args[1].closed /\ ~outcome[1].raised) =>
        LET shape == call.args[1]
            r == call.args[2]
            xs == outcome[1].value
        IN  \A i \in 1..Len(xs) :
                LET y == r.oy + xs[i].t * r.dy
                IN  shape.minimum < y /\ y < shape.maximum

\* C26: on a capped cylinder or cone, a ray whose direction has y = 0 raises
\* nothing, and the result is that of the sides alone, which is the result of
\* the same shape without its caps.
C26_CapsIgnoreParallelRay ==
    (LocalIntersectDone /\ call.args[1].closed /\ call.args[2].dy = 0) =>
        /\ ~outcome[1].raised
        /\ outcome[1] = LocalIntersect([call.args[1] EXCEPT !.closed = FALSE], call.args[2])

(***************************************************************************)
(* The walk's target by position, checked under SpecRefr                   *)
(***************************************************************************)
\* C27: the pair computed for the intersection at position k is the
\* container walk's pair at position k, also when an equal intersection
\* (same t, same object) stands earlier in the sequence; and for a target
\* that is not in the sequence the call still returns a pair.
C27_WalkAtPosition ==
    n1n2 # <<>> =>
        /\ ~n1n2[1].raised
        /\ \A k \in 1..Len(all_inters) :
               all_inters[k] = target =>
                   n1n2[1].value = <<IndexAfter(k - 1), IndexAfter(k)>>

(***************************************************************************)
(* The hit of changing contents, checked under SpecInter                   *)
(***************************************************************************)
\* C28: every read of hit, whatever appends, extends, sorts and earlier reads
\* came before it, returns the lowest-t entry with t > 0 of the contents at
\* the time of the read, and None when there is no such entry.
C28_HitFollowsContents ==
    [][lastOp' = "hit" =>
          IF PositiveTs(data') = {} THEN ret' = <<>>
          ELSE /\ ret' # <<>>
               /\ \E k \in 1..Len(data') : data'[k] = ret'[1]
               /\ \A t \in PositiveTs(data') : ret'[1].t <= t]_vars

(***************************************************************************)
(* Cycles in the scene graph, checked under SpecGraph                      *)
(***************************************************************************)
\* Everything under the shapes of S, through children sets at any depth.
RECURSIVE UnderAll(_)
UnderAll(S) ==
    LET T == S \cup UNION {children[x] : x \in S \cap DOMAIN children}
    IN  IF T = S THEN S ELSE UnderAll(T)

\* C29: in every graph built by add_child and CSG construction no group is
\* under itself, and check_includes(a, b) returns for every pair of shapes:
\* here, within MaxPops iterations of its loop.
C29_AcyclicAndTerminates ==
    /\ \A g \in GroupIds \cup built : g \notin UnderAll(children[g])
    /\ \A a \in Prims \cup GroupIds \cup built, b \in Prims \cup GroupIds \cup built :
           ~StillRunning(children, <<a>>, b, MaxPops)

====
